---- MODULE Spec2Model ----
(***************************************************************************)
(* Model of the JSON -> PDF service (websrc/backend/app).                  *)
(*                                                                         *)
(* Part I  (Spec):    one run of build_pdf_from_json, with the concurrent  *)
(*                    image downloads of download_images_parallel.         *)
(* Part II (SpecApi, SpecCache, SpecErrors, SpecStream and the fair        *)
(*                    SpecApiFair, SpecCacheFair): the routes of           *)
(*                    routes/api.py: the admission semaphore, the total    *)
(*                    deadline of /generate, the SSE generator of          *)
(*                    /generate-with-progress, the artifact cache with its *)
(*                    delayed cleanup and /download.                       *)
(* Part III (SpecExtract): extract_json_url of utils/validators.py.        *)
(* Part IV (SpecGenerator, SpecRedirects): one /generate-with-progress     *)
(*                    request from fetch_json on, its relay loop and its   *)
(*                    build; the redirects its HTTP client follows.        *)
(* Part V  (SpecSingleFile): /api/generate of the single-file backend/app.py. *)
(* Part VI (SpecClient): HTTPClientManager of utils/http_client.py and the *)
(*                    lifespan of main.py.                                 *)
(* Part VII (SpecFiles): the build of backend/app.py and link_to_pdf.py,   *)
(*                    which keep the downloaded images in files.           *)
(* Part VIII (SpecFilename): safe_filename of utils/validators.py.         *)
(***************************************************************************)
EXTENDS Integers, Sequences, FiniteSets, Bags, TLC

VARIABLES
    \* ---- Part I: build_pdf_from_json ----
    json_obj,      \* the decoded document handed to build_pdf_from_json
    bpc,           \* position of build_pdf_from_json
    error,         \* the HTTPException raised by the build ("" while none)
    image_urls,    \* List[Tuple[int, str]] built in step 3
    dl_semaphore,  \* value of asyncio.Semaphore(settings.download_concurrency)
    fetch,         \* per download task: "pending", "inflight" or "settled"
    net,           \* per download task: what the network answered
    results,       \* per download task: the tuple download_with_progress returned
    completed,     \* the nonlocal counter of download_images_parallel
    progress,      \* the progress_callback invocations, in order
    requests,      \* the image URLs handed to client.get: a bag, each with its count
    images,        \* the list handed to convert_images_to_pdf
    pdf_bytes,     \* the value build_pdf_from_json returned
    \* ---- Part II: routes/api.py ----
    job_kind,      \* per request: "sync" (/generate) or "stream" (/generate-with-progress)
    jpc,           \* per request: position of its handler
    _semaphore,    \* value of asyncio.Semaphore(settings.max_tasks)
    elapsed,       \* per request: seconds since it passed the semaphore
    response,      \* per /generate request: the HTTP response
    events,        \* per /generate-with-progress request: the stages the generator
                   \* sends, in order (the relayed progress only where Relay is a step)
    _pdf_cache,    \* task_id -> PDF bytes
    cleanup,       \* per task_id: state of its cleanup_cache task
    age,           \* per task_id: seconds since its PDF was cached
    download,      \* the last response of /download/{task_id}
    history,       \* per request (history, kept only where Init says so): the
                   \* exception that ended it and the HTTP requests it sent
    \* ---- Part III: utils/validators.py ----
    reference,     \* the argument of extract_json_url, a sequence of characters
    extraction,    \* what the call of extract_json_url did
    \* ---- Part IV: event_generator with its pdf_task ----
    gpc,           \* position of the generator
    taken,         \* how many items the relay loop has taken from progress_queue
    stream,        \* the messages the generator has yielded, in order
    document_requests, \* the hosts the document was requested from, in order
    redirected,    \* the redirects the client followed for the images, in order: pairs of
                   \* a download task and the URL it was sent on to
    \* ---- Part VI: utils/http_client.py and the lifespan of main.py ----
    _client,       \* HTTPClientManager._client: None or the client it holds
    clients,       \* the httpx.AsyncClient objects created, in order: "open",
                   \* "closing" (aclose has set is_closed and awaits the transport)
                   \* or "closed"
    lifespan,      \* position of lifespan(app)
    held,          \* per caller of get_client: the client it was given and uses
    \* ---- Part VII: the file-based build of backend/app.py and link_to_pdf.py ----
    td,            \* the temporary directory: path -> content of the file
    \* ---- Part VIII: safe_filename of utils/validators.py ----
    filename,      \* the argument of safe_filename, a sequence of characters
    output_name    \* what safe_filename returned (None before the call)

pvars == <<json_obj, bpc, error, image_urls, dl_semaphore, fetch, net, results,
           completed, progress, requests, images, pdf_bytes>>

avars == <<job_kind, jpc, _semaphore, elapsed, response, events, _pdf_cache,
           cleanup, age, download, history>>

gvars == <<gpc, taken, stream, document_requests, redirected>>

hvars == <<_client, clients, lifespan, held>>

fvars == <<td, filename, output_name>>

xvars == <<reference, extraction, gvars, hvars, fvars>>

vars == <<pvars, avars, xvars>>

(***************************************************************************)
(* Configuration (app/config.py)                                           *)
(***************************************************************************)
max_pages == 2000
max_images == 2000
\* DOWNLOAD_CONCURRENCY of the environment (default 20); a small value here.
download_concurrency == 2

allowed_hosts == {"iteach-cloudedit.xdf.cn", "iteachcdn.xdf.cn"}
allowed_image_hosts == {"iteachcdn.xdf.cn"}

(***************************************************************************)
(* Bounds of the checked inputs                                            *)
(***************************************************************************)
\* pages written out in full in a document
MaxPageList == 3

\* An optional value: <<>> when absent (None), <<v>> when present.
None == <<>>
Some(v) == <<v>>

\* "_idx" of a page: absent, or an integer
IdxValues == {None, Some(-1), Some(1)}

\* A coverImg URL, here its hostname (as urlparse finds it, "" when the URL
\* has none) and a path.
Url(h, p) == [host |-> h, path |-> p]

\* The body the image host serves for a URL.
Body(url) == <<"img", url.path>>

\* "coverImg" of the pages of the checked documents: absent or empty, or a
\* URL on the image host, on a host only documents may come from, or without
\* a hostname.
CoverKinds == {"absent", "image_host", "document_host", "no_host"}
CoverHost(kind) ==
    CASE kind = "image_host" -> "iteachcdn.xdf.cn"
      [] kind = "document_host" -> "iteach-cloudedit.xdf.cn"
      [] OTHER -> ""

PageShapes == [idx : IdxValues, cover : CoverKinds]

\* The page at place p of the array: its URL's path is p, so that every page
\* has its own URL and its own body.
Page(shape, p) ==
    [ idx |-> shape.idx,
      cover |-> IF shape.cover = "absent" THEN None
                ELSE Some(Url(CoverHost(shape.cover), p)) ]

\* Besides the pages written out, a document may hold `n` further pages, all
\* alike: without coverImg, or (cover) each with an allow-listed coverImg.
Paddings ==
    { [n |-> 0, cover |-> FALSE],
      [n |-> max_pages - 1, cover |-> FALSE],
      [n |-> max_pages + 1, cover |-> TRUE] }

\* json_obj: "pages" is a list (is_list) of the pages written out plus the
\* padding, or something that is no list.
Document(shapes, pd) ==
    [ is_list |-> TRUE,
      pages |-> [p \in 1..Len(shapes) |-> Page(shapes[p], p)],
      pad |-> pd ]
NoDocument == [is_list |-> FALSE, pages |-> <<>>, pad |-> [n |-> 0, cover |-> FALSE]]

(***************************************************************************)
(* Pure helpers                                                            *)
(***************************************************************************)
\* The bug of a missing _idx read as 1 instead of 0.
GetIdxMissingAsOne(page) == IF page.idx = None THEN 1 ELSE page.idx[1]

\* page.get("_idx", 0)
GetIdx(page) == IF page.idx = None THEN 0 ELSE page.idx[1]

\* len(pages)
PageCount(doc) == Len(doc.pages) + doc.pad.n

\* Python's sorted / list.sort on a list whose keys are `keys`: the places of
\* the input in output order.  The sort is stable: an element goes after every
\* element already placed whose key is <= its own.
RECURSIVE InsertByKey(_, _, _)
InsertByKey(perm, keys, i) ==
    IF perm = <<>> THEN <<i>>
    ELSE IF keys[Head(perm)] <= keys[i]
         THEN <<Head(perm)>> \o InsertByKey(Tail(perm), keys, i)
         ELSE <<i>> \o perm

RECURSIVE SortPermFrom(_, _, _)
SortPermFrom(perm, keys, i) ==
    IF i > Len(keys) THEN perm
    ELSE SortPermFrom(InsertByKey(perm, keys, i), keys, i + 1)

SortPerm(keys) == SortPermFrom(<<>>, keys, 1)

\* sorted(pages, key=lambda x: x.get("_idx", 0))
PagesSorted(pages) ==
    LET perm == SortPerm([p \in 1..Len(pages) |-> GetIdx(pages[p])])
    IN  [k \in 1..Len(pages) |-> pages[perm[k]]]

RECURSIVE SelectSeqCovers(_)
SelectSeqCovers(pages) ==
    IF pages = <<>> THEN <<>>
    ELSE IF Head(pages).cover # None
         THEN <<<<GetIdx(Head(pages)), Head(pages).cover[1]>>>> \o SelectSeqCovers(Tail(pages))
         ELSE SelectSeqCovers(Tail(pages))

\* step 3: the (idx, cover) pairs of the pages that have a coverImg
ExtractImageUrls(pages) == SelectSeqCovers(PagesSorted(pages))

\* len(image_urls), the padding's covers counted
ImageCount(doc) ==
    Len(ExtractImageUrls(doc.pages)) + (IF doc.pad.cover THEN doc.pad.n ELSE 0)

\* validate_host: raises unless the URL has a hostname of the allow-list
HostAllowed(url, allowed) == url.host # "" /\ url.host \in allowed

\* the checks of steps 1 to 4, in the order of the code
PagesNotList(doc) == ~doc.is_list
\* The bug of a limit that is off by one.
TooManyPagesOffByOne(doc) == PageCount(doc) > max_pages + 1
TooManyPages(doc) == PageCount(doc) > max_pages
\* The bug of going on without an image.
NoImagesUnchecked(doc) == FALSE
NoImages(doc) == ImageCount(doc) = 0
TooManyImages(doc) == ImageCount(doc) > max_images

\* The bug of validating the images against the documents' allow-list.
ImageHostsValidWrongList(urls) ==
    \A k \in 1..Len(urls) : HostAllowed(urls[k][2], allowed_hosts)

\* step 4: validate_host on every image URL
ImageHostsValid(urls) ==
    \A k \in 1..Len(urls) : HostAllowed(urls[k][2], allowed_image_hosts)

\* The HTTPException build_pdf_from_json raises before any download, "" if none.
BuildRejection(doc) ==
    IF PagesNotList(doc) THEN "pages_not_list"
    ELSE IF TooManyPages(doc) THEN "too_many_pages"
    ELSE IF NoImages(doc) THEN "no_images"
    ELSE IF TooManyImages(doc) THEN "too_many_images"
    ELSE IF ~ImageHostsValid(ExtractImageUrls(doc.pages)) THEN "forbidden_host"
    ELSE ""

\* The bug of a semaphore that admits everyone.
SemaphoreNeverLocked(value) == FALSE
\* asyncio.Semaphore.locked()
SemaphoreLocked(value) == value = 0

\* The bug of counting the distinct _idx instead of the images.
TotalDistinctIdx(urls) == Cardinality({ urls[k][1] : k \in 1..Len(urls) })
\* total = len(image_urls)
Total(urls) == Len(urls)

NetOutcomes == {"ok", "network_error", "http_error", "timeout"}

\* The bug of a download that is tried again after a failure.
SettledUnlessFailed(outcome) == IF outcome = "ok" THEN "settled" ELSE "pending"
\* download_image returns, whatever client.get did
Settled(outcome) == "settled"

\* The bug of a gather that returns with its first settled task.
GatherFirstCompleted(f) == \E t \in DOMAIN f : f[t] = "settled"
\* asyncio.gather(*tasks, return_exceptions=True) returns: every task is done
Gather(f) == \A t \in DOMAIN f : f[t] = "settled"

\* The bug of a lost update: a completion writes back the count it read
\* before another completion counted.
IncrementLost(value) == IF value = 0 THEN 1 ELSE value
\* completed += 1
Increment(value) == value + 1

\* download_image: (idx, response.content), or (idx, None) on any Exception
DownloadImage(pair, outcome) ==
    <<pair[1], IF outcome = "ok" THEN Some(Body(pair[2])) ELSE None>>

\* The bug of a gather that stops at the first failed task.
RECURSIVE ValidResultsUntilFailure(_)
ValidResultsUntilFailure(res) ==
    IF res = <<>> \/ Head(res)[2] = None THEN <<>>
    ELSE <<Head(res)>> \o ValidResultsUntilFailure(Tail(res))

\* the (idx, data) tuples of gather's results whose data is not None
RECURSIVE ValidResults(_)
ValidResults(res) ==
    IF res = <<>> THEN <<>>
    ELSE IF Head(res)[2] # None
         THEN <<Head(res)>> \o ValidResults(Tail(res))
         ELSE ValidResults(Tail(res))

\* valid_results.sort(key=lambda x: x[0]); [data for _, data in valid_results]
SortedData(valid) ==
    LET perm == SortPerm([k \in 1..Len(valid) |-> valid[k][1]])
    IN  [k \in 1..Len(valid) |-> valid[perm[k]][2][1]]

\* img2pdf.convert of the images, as a value that keeps their order
Pdf(imgs) == <<"pdf", imgs>>

ConvertOutcomes == {"ok", "image_open_error", "codec_error"}

Tasks == 1..Len(image_urls)

(***************************************************************************)
(* Part I: build_pdf_from_json and download_images_parallel                *)
(***************************************************************************)
\* build_pdf_from_json is about to be called on json_obj
InitBuild ==
    /\ bpc = "init"
    /\ error = ""
    /\ image_urls = <<>>
    /\ dl_semaphore = download_concurrency
    /\ fetch = <<>>
    /\ net = <<>>
    /\ results = <<>>
    /\ completed = 0
    /\ progress = <<>>
    /\ requests = EmptyBag
    /\ images = <<>>
    /\ pdf_bytes = None

\* build_pdf_from_json up to the first suspension: steps 1 to 4, the "start"
\* callback, and download_images_parallel up to its gather.
BuildStart ==
    /\ bpc = "init"
    /\ LET rej == BuildRejection(json_obj)
           urls == ExtractImageUrls(json_obj.pages)
       IN  IF rej # ""
           THEN /\ bpc' = "failed"
                /\ error' = rej
                /\ progress' = <<<<"parsing", 0, 0>>>>
                /\ UNCHANGED <<image_urls, fetch, net, results>>
           ELSE /\ bpc' = "downloading"
                /\ image_urls' = urls
                /\ progress' = <<<<"parsing", 0, 0>>, <<"start", 0, Len(urls)>>>>
                /\ fetch' = [t \in 1..Len(urls) |-> "pending"]
                /\ net' = [t \in 1..Len(urls) |-> ""]
                /\ results' = [t \in 1..Len(urls) |-> <<urls[t][1], None>>]
                /\ error' = error
    /\ UNCHANGED <<json_obj, dl_semaphore, completed, requests, images, pdf_bytes>>
    /\ UNCHANGED <<avars, xvars>>

\* download_image of task t passes the semaphore and calls client.get(url).
\* gather starts the tasks in list order and the semaphore wakes its waiters
\* first come, first served: a task passes after those before it.
FetchIssue(t) ==
    /\ bpc = "downloading"
    /\ fetch[t] = "pending"
    /\ \A u \in Tasks : u < t => fetch[u] # "pending"
    /\ ~SemaphoreLocked(dl_semaphore)
    /\ dl_semaphore' = dl_semaphore - 1
    /\ fetch' = [fetch EXCEPT ![t] = "inflight"]
    /\ requests' = requests (+) SetToBag({image_urls[t][2]})
    /\ UNCHANGED <<json_obj, bpc, error, image_urls, net, results, completed,
                   progress, images, pdf_bytes>>
    /\ UNCHANGED <<avars, xvars>>

\* client.get of task t answers: download_image returns and releases the
\* semaphore, download_with_progress counts and reports under the lock
FetchSettle(t, outcome) ==
    /\ bpc = "downloading"
    /\ fetch[t] = "inflight"
    /\ dl_semaphore' = dl_semaphore + 1
    /\ fetch' = [fetch EXCEPT ![t] = Settled(outcome)]
    /\ net' = [net EXCEPT ![t] = outcome]
    /\ results' = [results EXCEPT ![t] = DownloadImage(image_urls[t], outcome)]
    /\ completed' = Increment(completed)
    /\ progress' = Append(progress, <<"downloading", completed', Total(image_urls)>>)
    /\ UNCHANGED <<json_obj, bpc, error, image_urls, requests, images, pdf_bytes>>
    /\ UNCHANGED <<avars, xvars>>

\* gather returns: the results are filtered and sorted; then build_pdf_from_json
\* reports "converting" and hands the images to the executor
GatherDone ==
    /\ bpc = "downloading"
    /\ Gather(fetch)
    /\ LET valid == ValidResults(results)
       IN  IF valid = <<>>
           THEN /\ bpc' = "failed"
                /\ error' = "all_downloads_failed"
                /\ UNCHANGED <<images, progress>>
           ELSE /\ bpc' = "converting"
                /\ images' = SortedData(valid)
                /\ progress' = Append(progress,
                                  <<"converting", Total(image_urls), Total(image_urls)>>)
                /\ error' = error
    /\ UNCHANGED <<json_obj, image_urls, dl_semaphore, fetch, net, results,
                   completed, requests, pdf_bytes>>
    /\ UNCHANGED <<avars, xvars>>

\* convert_images_to_pdf returns or raises in the executor
ConvertDone(outcome) ==
    /\ bpc = "converting"
    /\ IF outcome = "ok"
       THEN /\ bpc' = "done"
            /\ pdf_bytes' = Pdf(images)
            /\ progress' = Append(progress,
                              <<"done", Total(image_urls), Total(image_urls)>>)
            /\ error' = error
       ELSE /\ bpc' = "failed"
            /\ error' = outcome
            /\ UNCHANGED <<pdf_bytes, progress>>
    /\ UNCHANGED <<json_obj, image_urls, dl_semaphore, fetch, net, results,
                   completed, requests, images>>
    /\ UNCHANGED <<avars, xvars>>

NextBuild ==
    \/ BuildStart
    \/ \E t \in Tasks : FetchIssue(t)
    \/ \E t \in Tasks, outcome \in NetOutcomes : FetchSettle(t, outcome)
    \/ GatherDone
    \/ \E outcome \in ConvertOutcomes : ConvertDone(outcome)

(***************************************************************************)
(* Part II: routes/api.py                                                  *)
(***************************************************************************)
\* MAX_TASKS of the environment (default 4); a small value here.
max_tasks == 2
total_timeout == 180
\* asyncio.create_task(cleanup_cache(task_id, 300))
cleanup_delay == 300

\* requests made to the two generate endpoints
NumJobs == 3
\* the clock advances by at most this many seconds in one step
TickSeconds == 180

Jobs == 1..NumJobs
\* a task_id no request was given
UnknownTask == NumJobs + 1

Min(S) == CHOOSE x \in S : \A y \in S : x <= y

\* the handler holds the semaphore and awaits one of these
WorkStates == {"fetching", "downloading", "converting"}
Terminal == {"succeeded", "failed", "timed_out"}

Holders == { j \in Jobs : jpc[j] \in WorkStates }

\* The PDF bytes build_pdf_from_json returns for request j.
JobPdf(j) == <<"pdf", j>>

NoResponse == [status |-> 0, body |-> None]
HttpError(status) == [status |-> status, body |-> None]
PdfResponse(bytes) == [status |-> 200, body |-> Some(bytes)]

\* what the reference of the request leads to in extract_json_url / validate_host:
\* a JSON URL on an allowed host; a ValueError of urlparse in extract_json_url
\* (such as "http://[/display"); no jsonUrl parameter; a URL whose host is
\* missing or not allowed (validate_host's own urlparse failure included)
References == {"ok", "unparseable", "no_json_url", "forbidden_host"}

\* The bug of fetching the document without validate_host.
ValidatedWithoutHost(ref) == ref \in {"ok", "forbidden_host"}
\* extract_json_url and validate_host both return
Validated(ref) == ref = "ok"

\* The bug of leaving out wait_for.
HasNoDeadline(kind) == FALSE
\* /generate wraps its work in asyncio.wait_for(..., total_timeout);
\* the event generator of /generate-with-progress has no such call.
HasDeadline(kind) == kind = "sync"

\* The bug of entering without taking a permit.
AcquireNothing(value) == value
\* async with _semaphore: __aenter__ and __aexit__
Acquire(value) == value - 1
\* The bug of leaving without giving the permit back.
ReleaseNothing(value) == value
Release(value) == value + 1

\* ---- the exceptions of a request and what the handlers make of them ----
HTTPException(status) == [type |-> "HTTPException", status |-> status]
OtherException(type) == [type |-> type, status |-> 0]

\* the HTTPExceptions build_pdf_from_json raises in its steps 1 to 4
BuildRejections == {"pages_not_list", "too_many_pages", "no_images", "forbidden_image_host"}

\* The exception each failure raises: extract_json_url and validate_host,
\* fetch_json (raise_for_status or the transport, response.json()),
\* build_pdf_from_json ("rejected": one of its rejections, not named),
\* download_images_parallel, convert_images_to_pdf, asyncio.wait_for.
Raised(cause) ==
    CASE cause \in {"no_json_url", "forbidden_host"} -> HTTPException(400)
      [] cause = "unparseable" -> OtherException("ValueError")
      [] cause = "http_error" -> OtherException("HTTPError")
      [] cause = "bad_json" -> OtherException("JSONDecodeError")
      [] cause \in BuildRejections \cup {"rejected"} -> HTTPException(400)
      [] cause = "all_downloads_failed" -> HTTPException(400)
      [] cause = "image_open_error" -> HTTPException(400)
      [] cause = "codec_error" -> HTTPException(500)
      [] cause = "timeout" -> OtherException("TimeoutError")

\* The status /generate answers with: its except clauses, in their order
\* (what extract_json_url or validate_host raise is raised before the try and
\* reaches the framework as it is: an HTTPException answers with its status,
\* any other exception is a 500).
GenerateStatus(exc) ==
    IF exc.type = "TimeoutError" THEN 504
    ELSE IF exc.type = "HTTPException" THEN exc.status
    ELSE IF exc.type = "JSONDecodeError" THEN 400
    ELSE 500

\* The bug of leaving out `except Exception` in the event generator.
\* The bug of reporting a failure in both except clauses.
ErrorEventsTwice(exc) == <<"error", "error">>
ErrorEventsHttpOnly(exc) == IF exc.type = "HTTPException" THEN <<"error">> ELSE <<>>
\* What the event generator sends for an exception: its two except clauses
\* each yield one "error" event, with e.detail or str(e) as the message.
ErrorEvents(exc) == <<"error">>

\* history of a request: nothing raised, nothing sent
NoHistory(kept) == [kept |-> kept, reference |-> "", raised |-> "", sent |-> <<>>]
\* the request raises `cause` / sends an HTTP request to `what`
Raise(h, cause) == IF h.kept THEN [h EXCEPT !.raised = cause] ELSE h
Send(h, what) == IF h.kept THEN [h EXCEPT !.sent = Append(@, what)] ELSE h
Refer(h, ref) == IF h.kept THEN [h EXCEPT !.reference = ref] ELSE h

InitApi ==
    /\ job_kind = [j \in Jobs |-> ""]
    /\ jpc = [j \in Jobs |-> "idle"]
    /\ _semaphore = max_tasks
    /\ elapsed = [j \in Jobs |-> 0]
    /\ response = [j \in Jobs |-> NoResponse]
    /\ events = [j \in Jobs |-> <<>>]
    /\ _pdf_cache = <<>>
    /\ cleanup = [j \in Jobs |-> "none"]
    /\ age = [j \in Jobs |-> 0]
    /\ download = [task_id |-> UnknownTask, status |-> 0, body |-> None, late |-> FALSE,
                   announced |-> FALSE]

\* The request ends without a PDF: /generate raises HTTPException(status),
\* the event generator sends its "error" event; `pre` are the events sent
\* before and h is the history of the request up to the raise.
Fail(j, state, cause, pre, h) ==
    /\ jpc' = [jpc EXCEPT ![j] = state]
    /\ elapsed' = [elapsed EXCEPT ![j] = 0]
    /\ history' = [history EXCEPT ![j] = Raise(h, cause)]
    /\ IF job_kind[j] = "sync"
       THEN /\ response' = [response EXCEPT ![j] = HttpError(GenerateStatus(Raised(cause)))]
            /\ events' = events
       ELSE /\ events' = [events EXCEPT ![j] = events[j] \o pre \o ErrorEvents(Raised(cause))]
            /\ response' = response

\* A request arrives; the generator's first event is "waiting".
Request(j, kind) ==
    /\ jpc[j] = "idle"
    /\ \A i \in Jobs : i < j => jpc[i] # "idle"
    /\ job_kind' = [job_kind EXCEPT ![j] = kind]
    /\ jpc' = [jpc EXCEPT ![j] = "queued"]
    /\ events' = [events EXCEPT ![j] = IF kind = "stream" THEN <<"waiting">> ELSE <<>>]
    /\ UNCHANGED <<_semaphore, elapsed, response, _pdf_cache, cleanup, age, download, history>>
    /\ UNCHANGED <<pvars, xvars>>

\* The handler passes `async with _semaphore`, runs extract_json_url and
\* validate_host, and starts fetch_json; a reference that fails validation
\* leaves the `async with` at once.
JobAdmit(j, ref) ==
    /\ jpc[j] = "queued"
    /\ ~SemaphoreLocked(_semaphore)
    /\ IF Validated(ref)
       THEN /\ _semaphore' = Acquire(_semaphore)
            /\ jpc' = [jpc EXCEPT ![j] = "fetching"]
            /\ elapsed' = [elapsed EXCEPT ![j] = 0]
            /\ events' = [events EXCEPT ![j] =
                             IF job_kind[j] = "stream"
                             THEN events[j] \o <<"started", "fetching">> ELSE <<>>]
            /\ history' = [history EXCEPT ![j] = Send(Refer(@, ref), "document")]
            /\ response' = response
       ELSE /\ _semaphore' = Release(Acquire(_semaphore))
            /\ Fail(j, "failed", ref, <<"started">>, Refer(history[j], ref))
    /\ UNCHANGED <<job_kind, _pdf_cache, cleanup, age, download>>
    /\ UNCHANGED <<pvars, xvars>>

FetchOutcomes == {"ok", "http_error", "bad_json", "rejected"}

\* fetch_json answers; with a document, build_pdf_from_json runs its steps 1
\* to 4 and starts the downloads, or raises its 400 ("rejected").
JobFetchJson(j, outcome) ==
    /\ jpc[j] = "fetching"
    /\ IF outcome = "ok"
       THEN /\ jpc' = [jpc EXCEPT ![j] = "downloading"]
            /\ history' = [history EXCEPT ![j] = Send(@, "images")]
            /\ UNCHANGED <<_semaphore, elapsed, response, events>>
       ELSE /\ _semaphore' = Release(_semaphore)
            /\ Fail(j, "failed", outcome, <<>>, history[j])
    /\ UNCHANGED <<job_kind, _pdf_cache, cleanup, age, download>>
    /\ UNCHANGED <<pvars, xvars>>

\* download_images_parallel returns its images or raises "all downloads failed"
JobDownloads(j, some_ok) ==
    /\ jpc[j] = "downloading"
    /\ IF some_ok
       THEN /\ jpc' = [jpc EXCEPT ![j] = "converting"]
            /\ UNCHANGED <<_semaphore, elapsed, response, events, history>>
       ELSE /\ _semaphore' = Release(_semaphore)
            /\ Fail(j, "failed", "all_downloads_failed", <<>>, history[j])
    /\ UNCHANGED <<job_kind, _pdf_cache, cleanup, age, download>>
    /\ UNCHANGED <<pvars, xvars>>

\* The bug of sending "complete" without having stored the PDF.
CachePutNothing(cache, t, bytes) == cache
\* _pdf_cache[task_id] = pdf_bytes
CachePut(cache, t, bytes) ==
    [k \in DOMAIN cache \cup {t} |-> IF k = t THEN bytes ELSE cache[k]]

\* convert_images_to_pdf returns in the executor: /generate answers with the
\* PDF; the event generator caches it, schedules cleanup_cache and sends
\* "complete".  Or the conversion raises.
JobConvert(j, outcome) ==
    /\ jpc[j] = "converting"
    /\ _semaphore' = Release(_semaphore)
    /\ IF outcome = "ok"
       THEN /\ jpc' = [jpc EXCEPT ![j] = "succeeded"]
            /\ elapsed' = [elapsed EXCEPT ![j] = 0]
            /\ history' = history
            /\ IF job_kind[j] = "sync"
               THEN /\ response' = [response EXCEPT ![j] = PdfResponse(JobPdf(j))]
                    /\ UNCHANGED <<events, _pdf_cache, cleanup, age>>
               ELSE /\ _pdf_cache' = CachePut(_pdf_cache, j, JobPdf(j))
                    /\ cleanup' = [cleanup EXCEPT ![j] = "sleeping"]
                    /\ age' = [age EXCEPT ![j] = 0]
                    /\ events' = [events EXCEPT ![j] = Append(events[j], "complete")]
                    /\ response' = response
       ELSE /\ Fail(j, "failed", outcome, <<>>, history[j])
            /\ UNCHANGED <<_pdf_cache, cleanup, age>>
    /\ UNCHANGED <<job_kind, download>>
    /\ UNCHANGED <<pvars, xvars>>

\* wait_for's timer fires: the work is cancelled, /generate raises 504
JobTimeout(j) ==
    /\ jpc[j] \in WorkStates
    /\ HasDeadline(job_kind[j])
    /\ elapsed[j] >= total_timeout
    /\ _semaphore' = Release(_semaphore)
    /\ jpc' = [jpc EXCEPT ![j] = "timed_out"]
    /\ elapsed' = [elapsed EXCEPT ![j] = 0]
    /\ response' = [response EXCEPT ![j] = HttpError(GenerateStatus(Raised("timeout")))]
    /\ history' = [history EXCEPT ![j] = Raise(@, "timeout")]
    /\ UNCHANGED <<job_kind, events, _pdf_cache, cleanup, age, download>>
    /\ UNCHANGED <<pvars, xvars>>

\* The bug of a pop that removes nothing.
CachePopNothing(cache, t) == cache
\* The bug of a cleanup that empties the cache.
CachePopAll(cache, t) == [k \in {} |-> cache[k]]
\* _pdf_cache.pop(task_id, None)
CachePop(cache, t) == [k \in DOMAIN cache \ {t} |-> cache[k]]

\* cleanup_cache(task_id, delay): after the sleep, _pdf_cache.pop(task_id, None)
CleanupCache(t) ==
    /\ cleanup[t] = "sleeping"
    /\ age[t] >= cleanup_delay
    /\ _pdf_cache' = CachePop(_pdf_cache, t)
    /\ cleanup' = [cleanup EXCEPT ![t] = "done"]
    /\ age' = [age EXCEPT ![t] = 0]
    /\ UNCHANGED <<job_kind, jpc, _semaphore, elapsed, response, events, download, history>>
    /\ UNCHANGED <<pvars, xvars>>

\* The bug of a download that takes the artifact out of the cache
\* (_pdf_cache.pop in the place of _pdf_cache.get).
DownloadPdfOnce(t) ==
    /\ download' =
         [ task_id |-> t,
           status |-> IF t \in DOMAIN _pdf_cache THEN 200 ELSE 404,
           body |-> IF t \in DOMAIN _pdf_cache THEN Some(_pdf_cache[t]) ELSE None,
           late |-> t \in Jobs /\ (cleanup[t] = "done" \/ age[t] > cleanup_delay),
           announced |-> t \in Jobs /\ \E k \in 1..Len(events[t]) : events[t][k] = "complete" ]
    /\ _pdf_cache' = CachePop(_pdf_cache, t)
    /\ UNCHANGED <<job_kind, jpc, _semaphore, elapsed, response, events,
                   cleanup, age, history>>
    /\ UNCHANGED <<pvars, xvars>>

\* download_pdf: _pdf_cache.get(task_id), 404 when there is none.  Noted with the
\* response: whether the task_id had been sent in a "complete" event
\* (announced) and whether its retention had run out (late).
DownloadPdf(t) ==
    /\ download' =
         [ task_id |-> t,
           status |-> IF t \in DOMAIN _pdf_cache THEN 200 ELSE 404,
           body |-> IF t \in DOMAIN _pdf_cache THEN Some(_pdf_cache[t]) ELSE None,
           late |-> t \in Jobs /\ (cleanup[t] = "done" \/ age[t] > cleanup_delay),
           announced |-> t \in Jobs /\ \E k \in 1..Len(events[t]) : events[t][k] = "complete" ]
    /\ UNCHANGED <<job_kind, jpc, _semaphore, elapsed, response, events, _pdf_cache,
                   cleanup, age, history>>
    /\ UNCHANGED <<pvars, xvars>>

\* the seconds left on each running timer
Timers ==
    { total_timeout - elapsed[j] : j \in { i \in Holders : HasDeadline(job_kind[i]) } }
      \cup { cleanup_delay - age[t] : t \in { k \in Jobs : cleanup[k] = "sleeping" } }

\* how far the model follows a clock past its timer
ElapsedCap == total_timeout + TickSeconds
AgeCap == cleanup_delay + TickSeconds

AtMost(x, cap) == IF x > cap THEN cap ELSE x

\* Time passes, for every request and artifact alike; a timer that is due
\* fires before time passes further.
Tick ==
    /\ \A x \in Timers : x > 0
    /\ LET d == Min({TickSeconds} \cup Timers)
       IN  /\ elapsed' = [j \in Jobs |->
                            IF j \in Holders THEN AtMost(elapsed[j] + d, ElapsedCap)
                            ELSE elapsed[j]]
           /\ age' = [t \in Jobs |->
                        IF cleanup[t] = "sleeping" THEN AtMost(age[t] + d, AgeCap)
                        ELSE age[t]]
    /\ <<elapsed', age'>> # <<elapsed, age>>
    /\ UNCHANGED <<job_kind, jpc, _semaphore, response, events, _pdf_cache, cleanup,
                   download, history>>
    /\ UNCHANGED <<pvars, xvars>>

NextApi ==
    \/ \E j \in Jobs, kind \in {"sync", "stream"} : Request(j, kind)
    \/ \E j \in Jobs, ref \in References : JobAdmit(j, ref)
    \/ \E j \in Jobs, outcome \in FetchOutcomes : JobFetchJson(j, outcome)
    \/ \E j \in Jobs, some_ok \in BOOLEAN : JobDownloads(j, some_ok)
    \/ \E j \in Jobs, outcome \in ConvertOutcomes : JobConvert(j, outcome)
    \/ \E j \in Jobs : JobTimeout(j)
    \/ \E t \in Jobs : CleanupCache(t)
    \/ Tick

\* ---- the client of a stream goes away ----
\* positions of a pdf_task whose generator is gone
OrphanStates == {"orphan_downloading", "orphan_converting"}

\* The client of /generate-with-progress disconnects: the generator is
\* closed where it is suspended (CancelledError at its await, GeneratorExit
\* at its yield; neither is an Exception, so no "error" is sent), and leaves
\* `async with _semaphore` if it was inside.  Nothing cancels the pdf_task
\* it created with asyncio.create_task: the task goes on.
Disconnect(j) ==
    /\ job_kind[j] = "stream"
    /\ jpc[j] \in {"queued"} \cup WorkStates
    /\ _semaphore' = IF jpc[j] \in WorkStates THEN Release(_semaphore) ELSE _semaphore
    /\ jpc' = [jpc EXCEPT ![j] =
                 CASE jpc[j] = "downloading" -> "orphan_downloading"
                   [] jpc[j] = "converting" -> "orphan_converting"
                   [] OTHER -> "disconnected"]
    /\ elapsed' = [elapsed EXCEPT ![j] = 0]
    /\ UNCHANGED <<job_kind, response, events, _pdf_cache, cleanup, age, download, history>>
    /\ UNCHANGED <<pvars, xvars>>

\* download_images_parallel returns or raises in a pdf_task nobody awaits
OrphanDownloads(j, some_ok) ==
    /\ jpc[j] = "orphan_downloading"
    /\ jpc' = [jpc EXCEPT ![j] = IF some_ok THEN "orphan_converting" ELSE "disconnected"]
    /\ UNCHANGED <<job_kind, _semaphore, elapsed, response, events, _pdf_cache, cleanup,
                   age, download, history>>
    /\ UNCHANGED <<pvars, xvars>>

\* The bug of storing the PDF of a task whose stream is gone.
OrphanConvertStored(j) ==
    /\ jpc[j] = "orphan_converting"
    /\ jpc' = [jpc EXCEPT ![j] = "disconnected"]
    /\ _pdf_cache' = CachePut(_pdf_cache, j, JobPdf(j))
    /\ UNCHANGED <<job_kind, _semaphore, elapsed, response, events, cleanup,
                   age, download, history>>
    /\ UNCHANGED <<pvars, xvars>>

\* the encoder returns or raises there; the result of the task is dropped
OrphanConvert(j) ==
    /\ jpc[j] = "orphan_converting"
    /\ jpc' = [jpc EXCEPT ![j] = "disconnected"]
    /\ UNCHANGED <<job_kind, _semaphore, elapsed, response, events, _pdf_cache, cleanup,
                   age, download, history>>
    /\ UNCHANGED <<pvars, xvars>>

\* The routes, with clients that go away.
NextDisconnect ==
    \/ \E j \in Jobs, kind \in {"sync", "stream"} : Request(j, kind)
    \/ \E j \in Jobs, ref \in References : JobAdmit(j, ref)
    \/ \E j \in Jobs, outcome \in FetchOutcomes : JobFetchJson(j, outcome)
    \/ \E j \in Jobs, some_ok \in BOOLEAN : JobDownloads(j, some_ok)
    \/ \E j \in Jobs, outcome \in ConvertOutcomes : JobConvert(j, outcome)
    \/ \E j \in Jobs : JobTimeout(j)
    \/ \E t \in Jobs : CleanupCache(t)
    \/ \E j \in Jobs : Disconnect(j)
    \/ \E j \in Jobs, some_ok \in BOOLEAN : OrphanDownloads(j, some_ok)
    \/ \E j \in Jobs : OrphanConvert(j)
    \/ Tick

\* requests made while the downloads of the artifacts are followed
DownloadJobs == 2

NextCache ==
    \/ \E j \in 1..DownloadJobs, kind \in {"sync", "stream"} : Request(j, kind)
    \/ \E j \in Jobs, ref \in References : JobAdmit(j, ref)
    \/ \E j \in Jobs, outcome \in FetchOutcomes : JobFetchJson(j, outcome)
    \/ \E j \in Jobs, some_ok \in BOOLEAN : JobDownloads(j, some_ok)
    \/ \E j \in Jobs, outcome \in ConvertOutcomes : JobConvert(j, outcome)
    \/ \E j \in Jobs : JobTimeout(j)
    \/ \E t \in Jobs : CleanupCache(t)
    \/ \E t \in Jobs \cup {UnknownTask} : DownloadPdf(t)
    \/ Tick

\* requests made while the relayed events are followed, and how many events
\* of one request the relay loop is followed for
StreamRequests == 2
MaxRelayed == 2

\* the stages the relay loop sends: those of progress_callback ("start" is
\* sent as "downloading") and the heartbeat of an empty queue
RelayedStages == {"parsing", "downloading", "converting", "done", "heartbeat"}

\* One turn of `while not pdf_task.done()`: the build task of a stream is
\* downloading or converting, and the loop yields the stage it took from
\* progress_queue, or a heartbeat after 0.5 s without one.
Relay(j, stage) ==
    /\ job_kind[j] = "stream"
    /\ jpc[j] \in {"downloading", "converting"}
    /\ Len(events[j]) < Len(<<"waiting", "started", "fetching">>) + MaxRelayed
    /\ events' = [events EXCEPT ![j] = Append(@, stage)]
    /\ UNCHANGED <<job_kind, jpc, _semaphore, elapsed, response, _pdf_cache, cleanup,
                   age, download, history>>
    /\ UNCHANGED <<pvars, xvars>>

\* The routes with the events of the relay loop.
NextStream ==
    \/ \E j \in 1..StreamRequests, kind \in {"sync", "stream"} : Request(j, kind)
    \/ \E j \in Jobs, ref \in References : JobAdmit(j, ref)
    \/ \E j \in Jobs, outcome \in FetchOutcomes : JobFetchJson(j, outcome)
    \/ \E j \in Jobs, some_ok \in BOOLEAN : JobDownloads(j, some_ok)
    \/ \E j \in Jobs, stage \in RelayedStages : Relay(j, stage)
    \/ \E j \in Jobs, outcome \in ConvertOutcomes : JobConvert(j, outcome)
    \/ \E j \in Jobs : JobTimeout(j)
    \/ \E t \in Jobs : CleanupCache(t)
    \/ Tick

\* requests made while their histories are kept
ErrorJobs == 2

\* The routes with every failure of a request told apart.
NextErrors ==
    \/ \E j \in 1..ErrorJobs, kind \in {"sync", "stream"} : Request(j, kind)
    \/ \E j \in Jobs, ref \in References : JobAdmit(j, ref)
    \/ \E j \in Jobs, outcome \in FetchOutcomes \cup BuildRejections :
         JobFetchJson(j, outcome)
    \/ \E j \in Jobs, some_ok \in BOOLEAN : JobDownloads(j, some_ok)
    \/ \E j \in Jobs, outcome \in ConvertOutcomes : JobConvert(j, outcome)
    \/ \E j \in Jobs : JobTimeout(j)
    \/ \E t \in Jobs : CleanupCache(t)
    \/ Tick

(***************************************************************************)
(* Part III: extract_json_url (utils/validators.py)                        *)
(*                                                                         *)
(* A str is a sequence of characters.  A run of characters that the        *)
(* function never looks into is one element: "https://v/d" (a scheme, a    *)
(* host and a path), "https://[/d" (the same with a host that urlsplit     *)
(* rejects), "jsonUrl", "jsonurl", ".json", ".JSON", ".html".              *)
(***************************************************************************)
\* how many parameters the query of a generated reference has at most
MaxParams == 2

\* i-th to last element of s
Drop(s, i) == SubSeq(s, i, Len(s))

\* sub in s
Contains(s, sub) ==
    \E i \in 1..(Len(s) - Len(sub) + 1) : SubSeq(s, i, i + Len(sub) - 1) = sub

\* str.lower
LowerChar(c) ==
    CASE c = "jsonUrl" -> "jsonurl"
      [] c = ".JSON" -> ".json"
      [] c = "R" -> "r"
      [] c = "U" -> "u"
      [] OTHER -> c
Lower(s) == [i \in 1..Len(s) |-> LowerChar(s[i])]

\* str.endswith for a suffix of one element
EndsWith(s, c) == Len(s) > 0 /\ s[Len(s)] = c

\* str.find(c) + 1: the place of the first c in s, 0 when there is none
Find(s, c) ==
    IF \E i \in 1..Len(s) : s[i] = c
    THEN CHOOSE i \in 1..Len(s) : s[i] = c /\ \A k \in 1..(i - 1) : s[k] # c
    ELSE 0

\* str.split(c)
RECURSIVE Split(_, _)
Split(s, c) ==
    IF Find(s, c) = 0 THEN <<s>>
    ELSE <<SubSeq(s, 1, Find(s, c) - 1)>> \o Split(Drop(s, Find(s, c) + 1), c)

\* the characters that are hexadecimal digits
HexDigits == {"2", "5"}
\* the character of a two-digit escape
Unhex(a, b) ==
    CASE a = "2" /\ b = "2" -> "\""
      [] a = "2" /\ b = "5" -> "%"
      [] a = "5" /\ b = "2" -> "R"
      [] a = "5" /\ b = "5" -> "U"

\* urllib.parse.unquote, one pass: an escape that is not two hexadecimal
\* digits stays as it is
RECURSIVE unquote(_)
unquote(s) ==
    IF s = <<>> THEN <<>>
    ELSE IF s[1] = "%" /\ Len(s) >= 3 /\ s[2] \in HexDigits /\ s[3] \in HexDigits
         THEN <<Unhex(s[2], s[3])>> \o unquote(Drop(s, 4))
         ELSE <<s[1]>> \o unquote(Tail(s))

\* str.replace('+', ' ')
PlusToSpace(s) == [i \in 1..Len(s) |-> IF s[i] = "+" THEN " " ELSE s[i]]

\* urlsplit(url).netloc is refused ("Invalid IPv6 URL")
InvalidNetloc(url) == Len(url) > 0 /\ url[1] = "https://[/d"

\* urlparse(url).query: the fragment is cut at the first '#', then the
\* query starts after the first '?'
Query(url) ==
    LET nofrag == IF Find(url, "#") = 0 THEN url
                  ELSE SubSeq(url, 1, Find(url, "#") - 1)
    IN  IF Find(nofrag, "?") = 0 THEN <<>> ELSE Drop(nofrag, Find(nofrag, "?") + 1)

\* urllib.parse.parse_qsl: the name=value fields of qs in their order; a
\* field without '=' or with a blank value is skipped; '+' is a space and
\* both sides are unquoted
RECURSIVE FieldsOf(_)
FieldsOf(fields) ==
    IF fields = <<>> THEN <<>>
    ELSE LET f == Head(fields)
             eq == Find(f, "=")
             name == SubSeq(f, 1, eq - 1)
             value == Drop(f, eq + 1)
         IN  (IF eq = 0 \/ value = <<>> THEN <<>>
              ELSE <<[name |-> unquote(PlusToSpace(name)),
                      value |-> unquote(PlusToSpace(value))]>>)
             \o FieldsOf(Tail(fields))
parse_qsl(qs) == FieldsOf(Split(qs, "&"))

\* urllib.parse.parse_qs(qs)[name], <<>> when name is no key
parse_qs(qs, name) ==
    LET pairs == parse_qsl(qs)
        RECURSIVE Values(_)
        Values(i) ==
            IF i > Len(pairs) THEN <<>>
            ELSE (IF pairs[i].name = name THEN <<pairs[i].value>> ELSE <<>>)
                 \o Values(i + 1)
    IN  Values(1)

\* what a call did
Returned(s) == [called |-> TRUE, raised |-> "", value |-> s]
Threw(exc) == [called |-> TRUE, raised |-> exc, value |-> <<>>]
NotCalled == [called |-> FALSE, raised |-> "", value |-> <<>>]

\* extract_json_url(maybe_display_url)
extract_json_url(maybe_display_url) ==
    IF /\ ~Contains(maybe_display_url, <<"jsonUrl", "=">>)
       /\ EndsWith(Lower(maybe_display_url), ".json")
    THEN Returned(maybe_display_url)
    ELSE IF InvalidNetloc(maybe_display_url) THEN Threw("ValueError")
    ELSE LET qs == parse_qs(Query(maybe_display_url), <<"jsonUrl">>)
         IN  IF qs = <<>> THEN Threw("HTTPException 400")
             ELSE Returned(unquote(qs[1]))

\* the references that are tried
Authorities == {<<"https://v/d">>, <<"https://[/d">>}
PathEnds == {<<>>, <<".json">>, <<".JSON">>, <<".html">>,
             <<"jsonUrl", "=", "x", ".json">>}
ParamNames == {<<"jsonUrl">>, <<"jsonurl">>, <<"x">>}
ParamValues == {<<>>, <<"x">>, <<"x", ".json">>, <<"x", "+", "x">>,
                <<"x", "=", "x">>, <<"%", "x">>, <<"%", "2", "2">>,
                <<"%", "2", "5">>, <<"%", "5", "2">>,
                <<"%", "2", "5", "2", "2">>}
Params == ParamNames \cup {n \o <<"=">> \o v : n \in ParamNames, v \in ParamValues}
Fragments == {<<>>, <<"#", ".json">>, <<"#", "jsonUrl", "=", "x">>}
RECURSIVE Join(_)
Join(ps) == IF Len(ps) = 0 THEN <<>>
            ELSE IF Len(ps) = 1 THEN ps[1]
            ELSE ps[1] \o <<"&">> \o Join(Tail(ps))

\* no call of extract_json_url
NoExtraction ==
    /\ reference = <<>>
    /\ extraction = NotCalled

InitExtract ==
    /\ \E a \in Authorities, e \in PathEnds, f \in Fragments :
         \/ reference = a \o e \o f
         \/ \E n \in 0..MaxParams : \E ps \in [1..n -> Params] :
              reference = a \o e \o <<"?">> \o Join(ps) \o f
    /\ extraction = NotCalled

ExtractJsonUrl ==
    /\ ~extraction.called
    /\ extraction' = extract_json_url(reference)
    /\ UNCHANGED <<reference, gvars, hvars, fvars, pvars, avars>>

NextExtract == ExtractJsonUrl

(***************************************************************************)
(* Part IV: event_generator of /generate-with-progress from fetch_json on, *)
(* with the build of Part I as its pdf_task                                *)
(***************************************************************************)
\* how many heartbeats of one stream are followed
MaxHeartbeats == 2

\* json.dumps(msg): the stage with its "current" and "total" where the
\* message has them
Msg(stage, current, total) == <<stage, current, total>>
Event(stage) == Msg(stage, None, None)

\* the message the relay loop builds for an item of progress_queue
RelayMsg(item) ==
    CASE item[1] = "start" -> Msg("downloading", Some(0), Some(item[3]))
      [] item[1] = "downloading" -> Msg("downloading", Some(item[2]), Some(item[3]))
      [] OTHER -> Event(item[1])

\* pdf_task.done()
TaskDone == bpc \in {"done", "failed"}
\* The bug of a wait that never sees what was put on the queue.
NothingQueued == <<>>
\* progress_queue: what progress_callback has put and the loop has not taken
ProgressQueue == SubSeq(progress, taken + 1, Len(progress))
\* how many heartbeats were sent
Heartbeats == Cardinality({ k \in 1..Len(stream) : stream[k] = Event("heartbeat") })

\* the host of the json_url that passed validate_host
JsonHost == "iteach-cloudedit.xdf.cn"

\* no /generate-with-progress request is followed
NoGenerator ==
    /\ gpc = "idle"
    /\ taken = 0
    /\ stream = <<>>
    /\ document_requests = <<>>
    /\ redirected = <<>>

\* the generator has passed validate_host and sent "fetching"
InitGenerator ==
    /\ gpc = "validated"
    /\ taken = 0
    /\ stream = <<Event("waiting"), Event("started"), Event("fetching")>>
    /\ document_requests = <<>>
    /\ redirected = <<>>

\* fetch_json: client.get(json_url) sends the request
FetchJsonSend ==
    /\ gpc = "validated"
    /\ gpc' = "fetching"
    /\ document_requests' = Append(document_requests, JsonHost)
    /\ UNCHANGED <<taken, stream, redirected>>
    /\ UNCHANGED <<pvars, avars, reference, extraction, hvars, fvars>>

\* the end of the generator: "complete" after the loop and `await pdf_task`,
\* "error" from an except clause
Ends(with) ==
    /\ gpc' = "ended"
    /\ stream' = Append(stream, Event(with))

\* fetch_json returns json_obj, or raise_for_status or response.json() raise;
\* with the document, pdf_task is created and the loop is entered: the task
\* has not run yet, so the first wait_for begins
FetchJsonDone(outcome) ==
    /\ gpc = "fetching"
    /\ IF outcome = "ok"
       THEN gpc' = "getting" /\ stream' = stream
       ELSE Ends("error")
    /\ UNCHANGED <<taken, document_requests, redirected>>
    /\ UNCHANGED <<pvars, avars, reference, extraction, hvars, fvars>>

\* the steps of pdf_task, once it is created
TaskCreated == gpc \in {"getting", "yielding"}

\* wait_for(progress_queue.get(), 0.5) returns an item; the loop yields its
\* message and the generator is suspended until the response asks for more
RelayGet ==
    /\ gpc = "getting"
    /\ ProgressQueue # <<>>
    /\ taken' = taken + 1
    /\ stream' = Append(stream, RelayMsg(Head(ProgressQueue)))
    /\ gpc' = "yielding"
    /\ UNCHANGED <<document_requests, redirected>>
    /\ UNCHANGED <<pvars, avars, reference, extraction, hvars, fvars>>

\* wait_for raises TimeoutError: the queue stayed empty for 0.5 s; the loop
\* yields a heartbeat
RelayTimeout ==
    /\ gpc = "getting"
    /\ ProgressQueue = <<>>
    /\ Heartbeats < MaxHeartbeats
    /\ stream' = Append(stream, Event("heartbeat"))
    /\ gpc' = "yielding"
    /\ UNCHANGED <<taken, document_requests, redirected>>
    /\ UNCHANGED <<pvars, avars, reference, extraction, hvars, fvars>>

\* the generator is resumed after a yield of the loop: `while not
\* pdf_task.done()` is tested; a task that is done ends the loop, `await
\* pdf_task` returns its PDF or raises, and "complete" or "error" is sent
LoopTest ==
    /\ gpc = "yielding"
    /\ IF TaskDone
       THEN Ends(IF bpc = "done" THEN "complete" ELSE "error")
       ELSE gpc' = "getting" /\ stream' = stream
    /\ UNCHANGED <<taken, document_requests, redirected>>
    /\ UNCHANGED <<pvars, avars, reference, extraction, hvars, fvars>>

\* the outcomes of fetch_json
FetchJsonOutcomes == {"ok", "http_error", "bad_json"}

\* how many redirects of one request are followed (httpx stops at 20)
MaxRedirects == 1
\* a host that is on neither list
OtherHost == "internal.example"

\* follow_redirects: the server answers the document request with a 3xx and
\* a Location on `host`, and the client requests that
FetchJsonRedirect(host) ==
    /\ gpc = "fetching"
    /\ Len(document_requests) <= MaxRedirects
    /\ document_requests' = Append(document_requests, host)
    /\ UNCHANGED <<gpc, taken, stream, redirected>>
    /\ UNCHANGED <<pvars, avars, reference, extraction, hvars, fvars>>

\* the same for the image of download task t, sent on to url
FetchRedirect(t, url) ==
    /\ fetch[t] = "inflight"
    /\ Cardinality({ k \in 1..Len(redirected) : redirected[k][1] = t }) < MaxRedirects
    /\ redirected' = Append(redirected, <<t, url>>)
    /\ requests' = requests (+) SetToBag({url})
    /\ UNCHANGED <<gpc, taken, stream, document_requests>>
    /\ UNCHANGED <<json_obj, bpc, error, image_urls, dl_semaphore, fetch, net, results,
                   completed, progress, images, pdf_bytes>>
    /\ UNCHANGED <<avars, reference, extraction, hvars, fvars>>

\* The requests of one stream and its build (the relay loop left waiting),
\* the servers answering with redirects: back to the URL asked for, or on
\* to a host outside the lists.
NextRedirects ==
    \/ FetchJsonSend
    \/ \E host \in {JsonHost, OtherHost} : FetchJsonRedirect(host)
    \/ \E outcome \in FetchJsonOutcomes : FetchJsonDone(outcome)
    \/ TaskCreated /\ BuildStart
    \/ \E t \in Tasks : TaskCreated /\ FetchIssue(t)
    \/ \E t \in Tasks : FetchRedirect(t, image_urls[t][2])
    \/ \E t \in Tasks : FetchRedirect(t, Url(OtherHost, image_urls[t][2].path))
    \/ \E t \in Tasks, outcome \in NetOutcomes : TaskCreated /\ FetchSettle(t, outcome)
    \/ TaskCreated /\ GatherDone
    \/ \E outcome \in ConvertOutcomes : TaskCreated /\ ConvertDone(outcome)

NextGenerator ==
    \/ FetchJsonSend
    \/ \E outcome \in FetchJsonOutcomes : FetchJsonDone(outcome)
    \/ TaskCreated /\ BuildStart
    \/ \E t \in Tasks : TaskCreated /\ FetchIssue(t)
    \/ \E t \in Tasks, outcome \in NetOutcomes : TaskCreated /\ FetchSettle(t, outcome)
    \/ TaskCreated /\ GatherDone
    \/ \E outcome \in ConvertOutcomes : TaskCreated /\ ConvertDone(outcome)
    \/ RelayGet
    \/ RelayTimeout
    \/ LoopTest

\* the pages of the documents of a followed stream: with a coverImg on the
\* image host or without one
StreamShapes == [idx : {None}, cover : {"absent", "image_host"}]

(***************************************************************************)
(* Part V: backend/app.py, the single-file application.  Its /api/generate *)
(* is the /generate of Part II (a semaphore `sema`, extract_json_url and   *)
(* host_allowed, the document, build_pdf_bytes under asyncio.wait_for),    *)
(* with one difference: build_pdf_bytes calls img2pdf.convert(files) in    *)
(* the coroutine itself, where pdf_service.py hands convert_images_to_pdf  *)
(* to loop.run_in_executor.                                                *)
(***************************************************************************)
\* The thread of the event loop is inside img2pdf.convert: until the call
\* returns no other coroutine is resumed and no callback runs.
LoopBlocked == \E j \in Jobs : jpc[j] = "converting"

\* generate(req) is called and reaches `async with sema`
Generate(j) == ~LoopBlocked /\ Request(j, "sync")
\* `async with sema`, extract_json_url, host_allowed, and fetch_text is awaited
GenerateAdmit(j, ref) == ~LoopBlocked /\ JobAdmit(j, ref)
\* fetch_text and json.loads return or raise; build_pdf_bytes runs up to its gather
FetchText(j, outcome) == ~LoopBlocked /\ JobFetchJson(j, outcome)
\* `await asyncio.gather(*tasks)` returns, and the coroutine goes on, without
\* an await, into img2pdf.convert
BuildPdfBytesGather(j, some_ok) == ~LoopBlocked /\ JobDownloads(j, some_ok)
\* img2pdf.convert returns or raises on the thread of the event loop
Img2PdfConvert(j, outcome) == JobConvert(j, outcome)
\* the timer of asyncio.wait_for(_work(), timeout=TOTAL_TIMEOUT): a callback
\* of the event loop
WaitForTimeout(j) == ~LoopBlocked /\ JobTimeout(j)

NextSingleFile ==
    \/ \E j \in Jobs : Generate(j)
    \/ \E j \in Jobs, ref \in References : GenerateAdmit(j, ref)
    \/ \E j \in Jobs, outcome \in FetchOutcomes : FetchText(j, outcome)
    \/ \E j \in Jobs, some_ok \in BOOLEAN : BuildPdfBytesGather(j, some_ok)
    \/ \E j \in Jobs, outcome \in ConvertOutcomes : Img2PdfConvert(j, outcome)
    \/ \E j \in Jobs : WaitForTimeout(j)
    \/ Tick

(***************************************************************************)
(* Part VI: utils/http_client.py, main.py                                  *)
(***************************************************************************)
\* coroutines that call get_client while the application runs
\* (download_images_parallel, fetch_json through get_http_client)
NumCallers == 4
Callers == 1..NumCallers

\* httpx.AsyncClient.is_closed: aclose sets the state to closed before it
\* awaits the transport
IsClosed(c) == clients[c] # "open"

\* get_client: `cls._client is None or cls._client.is_closed`
NeedsClient == _client = None \/ IsClosed(_client[1])

\* get_client (it has no await): creates a client if there is none to hand
\* out, and returns cls._client
GetClient ==
    IF NeedsClient
    THEN /\ clients' = Append(clients, "open")
         /\ _client' = Some(Len(clients) + 1)
    ELSE UNCHANGED <<_client, clients>>

NoClient ==
    /\ _client = None
    /\ clients = <<>>
    /\ lifespan = "startup"
    /\ held = [j \in Callers |-> None]

\* lifespan, before its yield: await HTTPClientManager.get_client()
LifespanStartup ==
    /\ lifespan = "startup"
    /\ GetClient
    /\ lifespan' = "serving"
    /\ UNCHANGED held
    /\ UNCHANGED <<pvars, avars, reference, extraction, gvars, fvars>>

\* a coroutine of a request calls get_client and keeps what it returns; tasks
\* of requests may still run while the lifespan shuts down
CallerGetClient(j) ==
    /\ lifespan \in {"serving", "closing"}
    /\ held[j] = None
    /\ GetClient
    /\ held' = [held EXCEPT ![j] = _client']
    /\ UNCHANGED lifespan
    /\ UNCHANGED <<pvars, avars, reference, extraction, gvars, fvars>>

\* the coroutine is done with the client
CallerDone(j) ==
    /\ held[j] # None
    /\ held' = [held EXCEPT ![j] = None]
    /\ UNCHANGED <<_client, clients, lifespan>>
    /\ UNCHANGED <<pvars, avars, reference, extraction, gvars, fvars>>

\* lifespan, after its yield: HTTPClientManager.close() up to its await;
\* with no open client close returns at once
CloseAwait ==
    /\ lifespan = "serving"
    /\ IF _client # None /\ ~IsClosed(_client[1])
       THEN /\ clients' = [clients EXCEPT ![_client[1]] = "closing"]
            /\ lifespan' = "closing"
       ELSE /\ clients' = clients
            /\ lifespan' = "stopped"
    /\ UNCHANGED <<_client, held>>
    /\ UNCHANGED <<pvars, avars, reference, extraction, gvars, fvars>>

\* aclose returns: the transport of that client is closed, and close goes on
\* with `cls._client = None`
CloseReturn ==
    /\ lifespan = "closing"
    /\ clients' = [c \in DOMAIN clients |->
                     IF clients[c] = "closing" THEN "closed" ELSE clients[c]]
    /\ _client' = None
    /\ lifespan' = "stopped"
    /\ UNCHANGED held
    /\ UNCHANGED <<pvars, avars, reference, extraction, gvars, fvars>>

NextClient ==
    \/ LifespanStartup
    \/ \E j \in Callers : CallerGetClient(j)
    \/ \E j \in Callers : CallerDone(j)
    \/ CloseAwait
    \/ CloseReturn

(***************************************************************************)
(* Part VII: build_pdf_bytes of backend/app.py and json_to_pdf of          *)
(* link_to_pdf.py.  Both sort the pages and collect (idx, url) as Part I   *)
(* does, write every downloaded image to a file of the temporary directory *)
(* named after its idx, and hand the list of paths to img2pdf.convert.     *)
(* json_to_pdf downloads one image after the other, which is one of the    *)
(* orders build_pdf_bytes can take.                                        *)
(***************************************************************************)
NoFiles == td = <<>>

\* os.path.join(td, f"{int(idx):06d}.img"): the path is made of the idx alone
ImgPath(idx) == <<"temp_images_", idx, ".img">>

\* open(path, "wb") and f.write(content): the file is created or replaced
WriteFile(dir, path, content) ==
    [q \in DOMAIN dir \cup {path} |-> IF q = path THEN content ELSE dir[q]]

\* files = [p for p in results if p]
RECURSIVE Files(_)
Files(res) ==
    IF res = <<>> THEN <<>>
    ELSE IF Head(res) # None
         THEN <<Head(res)[1]>> \o Files(Tail(res))
         ELSE Files(Tail(res))

\* build_pdf_bytes up to its gather: the checks, image_urls, one download_one
\* per entry
BuildPdfBytesStart ==
    /\ bpc = "init"
    /\ LET rej == BuildRejection(json_obj)
           urls == ExtractImageUrls(json_obj.pages)
       IN  IF rej # ""
           THEN /\ bpc' = "failed"
                /\ error' = rej
                /\ UNCHANGED <<image_urls, fetch, net, results>>
           ELSE /\ bpc' = "downloading"
                /\ image_urls' = urls
                /\ fetch' = [t \in 1..Len(urls) |-> "pending"]
                /\ net' = [t \in 1..Len(urls) |-> ""]
                /\ results' = [t \in 1..Len(urls) |-> None]
                /\ error' = error
    /\ UNCHANGED <<json_obj, dl_semaphore, completed, progress, requests, images,
                   pdf_bytes, td>>
    /\ UNCHANGED <<filename, output_name>>
    /\ UNCHANGED <<avars, reference, extraction, gvars, hvars>>

\* download_one of task t passes dl_sema and awaits fetch_bytes
DownloadOneFetch(t) == FetchIssue(t)

\* fetch_bytes of task t returns or raises: download_one writes the content
\* to the file of its idx and returns the path, or returns None
DownloadOneWrite(t, outcome) ==
    /\ bpc = "downloading"
    /\ fetch[t] = "inflight"
    /\ dl_semaphore' = dl_semaphore + 1
    /\ fetch' = [fetch EXCEPT ![t] = "settled"]
    /\ net' = [net EXCEPT ![t] = outcome]
    /\ LET path == ImgPath(image_urls[t][1])
       IN  IF outcome = "ok"
           THEN /\ td' = WriteFile(td, path, Body(image_urls[t][2]))
                /\ results' = [results EXCEPT ![t] = Some(path)]
           ELSE UNCHANGED <<td, results>>
    /\ UNCHANGED <<json_obj, bpc, error, image_urls, completed, progress, requests,
                   images, pdf_bytes>>
    /\ UNCHANGED <<filename, output_name>>
    /\ UNCHANGED <<avars, reference, extraction, gvars, hvars>>

\* gather returns and img2pdf.convert(files) reads the files of the list, one
\* page for each path, or raises
Img2PdfConvertFiles(outcome) ==
    /\ bpc = "downloading"
    /\ Gather(fetch)
    /\ LET files == Files(results)
       IN  IF files = <<>>
           THEN /\ bpc' = "failed"
                /\ error' = "all_downloads_failed"
                /\ UNCHANGED <<images, pdf_bytes>>
           ELSE /\ images' = [k \in 1..Len(files) |-> td[files[k]]]
                /\ IF outcome = "ok"
                   THEN bpc' = "done" /\ pdf_bytes' = Pdf(images') /\ error' = error
                   ELSE bpc' = "failed" /\ error' = outcome /\ pdf_bytes' = pdf_bytes
    /\ UNCHANGED <<json_obj, image_urls, dl_semaphore, fetch, net, results,
                   completed, progress, requests, td>>
    /\ UNCHANGED <<filename, output_name>>
    /\ UNCHANGED <<avars, reference, extraction, gvars, hvars>>

NextFiles ==
    \/ BuildPdfBytesStart
    \/ \E t \in Tasks : DownloadOneFetch(t)
    \/ \E t \in Tasks, outcome \in NetOutcomes : DownloadOneWrite(t, outcome)
    \/ \E outcome \in ConvertOutcomes : Img2PdfConvertFiles(outcome)

(***************************************************************************)
(* Part VIII: safe_filename                                                *)
(***************************************************************************)
\* Names are sequences of characters; "U+4E2D" stands for that one CJK
\* character.
\* `if len(name) > 120: name = name[:120]`
NameLimit == 120

\* characters that str.strip removes
Whitespace == {" ", "\t"}
\* characters of the class [\w\-.() \u4e00-\u9fff] among those of the checked
\* names: \w (letters, digits, "_"), "-", ".", "(", ")", the space, CJK
WordChars == {"a", "p", "d", "f", "P", "D", "F", "7", "_"}
Kept == WordChars \cup {"-", ".", "(", ")", " ", "U+4E2D"}
\* characters outside the class: separators, the double quote, a tab
Unsafe == {"/", "\\", "\"", "\t", ":"}

\* name.strip()
RECURSIVE LStrip(_)
LStrip(s) == IF s # <<>> /\ Head(s) \in Whitespace THEN LStrip(Tail(s)) ELSE s
RECURSIVE RStrip(_)
RStrip(s) ==
    IF s # <<>> /\ s[Len(s)] \in Whitespace THEN RStrip(SubSeq(s, 1, Len(s) - 1)) ELSE s
Strip(s) == RStrip(LStrip(s))

\* re.sub(r"[^\w\-.() \u4e00-\u9fff]+", "_", name): every maximal run of
\* characters outside the class becomes one "_"
\* (the first character of a run gives the "_", the others give nothing)
ReSub(s) ==
    LET sub == [i \in 1..Len(s) |->
                  IF s[i] \in Kept THEN s[i]
                  ELSE IF i = 1 \/ s[i - 1] \in Kept THEN "_"
                  ELSE ""]
    IN  SelectSeq(sub, LAMBDA c : c # "")

\* str.lower on the characters of the checked names
LowerOf(c) ==
    CASE c = "P" -> "p"
      [] c = "D" -> "d"
      [] c = "F" -> "f"
      [] OTHER -> c

DotPdf == <<".", "p", "d", "f">>
\* name.lower().endswith(".pdf")
EndsWithPdf(s) ==
    /\ Len(s) >= Len(DotPdf)
    /\ [i \in 1..Len(DotPdf) |-> LowerOf(s[Len(s) - Len(DotPdf) + i])] = DotPdf

\* safe_filename: its statements in their order
safe_filename(n) ==
    LET stripped == Strip(n)
        cleaned == ReSub(stripped)
        suffixed == IF EndsWithPdf(cleaned) THEN cleaned ELSE cleaned \o DotPdf
        cut == IF Len(suffixed) > NameLimit THEN SubSeq(suffixed, 1, NameLimit)
               ELSE suffixed
    IN  IF cut = <<>> THEN <<"o", "u", "t", "p", "u", "t">> \o DotPdf ELSE cut

NoFilename == filename = <<>> /\ output_name = None

\* the longest run of one character in a checked name
MaxFill == 122
Fill(c, n) == [i \in 1..n |-> c]
\* the lengths of the run: short ones, and those around the limit
FillLengths == 0..2 \cup ((NameLimit - 6)..MaxFill)
Leads == {<<>>, <<" ">>, <<"/">>, <<".", ".", "/">>, <<"\"">>, <<"U+4E2D">>, <<"\t", "\\">>}
Tails == {<<>>, DotPdf, <<".", "P", "D", "F">>, <<".", "p", "d">>, <<"/", "/">>,
          DotPdf \o <<" ">>, DotPdf \o <<"\"">>, <<":", "(", "7", ")">>}

InitFilename ==
    /\ \E lead \in Leads, c \in {"a", "/"}, n \in FillLengths, tail \in Tails :
         filename = lead \o Fill(c, n) \o tail
    /\ output_name = None

\* output_name = safe_filename(req.output_name)
SafeFilename ==
    /\ output_name = None
    /\ output_name' = Some(safe_filename(filename))
    /\ UNCHANGED <<filename, td>>
    /\ UNCHANGED <<pvars, avars, reference, extraction, gvars, hvars>>

NextFilename == SafeFilename

\* Calls of safe_filename, no build and no request.
InitFilenames ==
    /\ json_obj = NoDocument
    /\ InitBuild
    /\ InitApi
    /\ history = [j \in Jobs |-> NoHistory(FALSE)]
    /\ NoExtraction
    /\ NoGenerator
    /\ NoClient
    /\ NoFiles
    /\ InitFilename
SpecFilename == InitFilenames /\ [][NextFilename]_vars


\* One build, no request in the routes.
Init ==
    /\ \/ json_obj = NoDocument
       \/ \E n \in 0..MaxPageList, pd \in Paddings :
            \E shapes \in [1..n -> PageShapes] : json_obj = Document(shapes, pd)
    /\ InitBuild
    /\ InitApi
    /\ NoExtraction
    /\ NoGenerator
    /\ NoClient
    /\ NoFiles
    /\ NoFilename
    /\ history = [j \in Jobs |-> NoHistory(FALSE)]
Spec == Init /\ [][NextBuild]_vars

\* The routes, the builds of the requests taken by their outcome.
InitRoutes ==
    /\ json_obj = NoDocument
    /\ InitBuild
    /\ InitApi
    /\ NoExtraction
    /\ NoGenerator
    /\ NoClient
    /\ NoFiles
    /\ NoFilename
    /\ history = [j \in Jobs |-> NoHistory(FALSE)]
\* the two generate endpoints and the cleanup of their artifacts
SpecApi == InitRoutes /\ [][NextApi]_vars
\* the same, with /download/{task_id}
SpecCache == InitRoutes /\ [][NextCache]_vars
\* the same on a running event loop: time passes, and a timer that is due
\* (call_later of asyncio.sleep and of wait_for) runs its callback
FairTimers ==
    /\ WF_vars(Tick)
    /\ \A t \in Jobs : WF_vars(CleanupCache(t))
    /\ \A j \in Jobs : WF_vars(JobTimeout(j))
SpecCacheFair == InitRoutes /\ [][NextCache]_vars /\ FairTimers
\* every request that is at work ends (its awaits return or raise), and a
\* request waiting at a semaphore with a free permit goes on
FairJobs ==
    \A j \in Jobs :
      /\ WF_vars(\E ref \in References : JobAdmit(j, ref))
      /\ WF_vars(\E outcome \in FetchOutcomes : JobFetchJson(j, outcome))
      /\ WF_vars(\E some_ok \in BOOLEAN : JobDownloads(j, some_ok))
      /\ WF_vars(\E outcome \in ConvertOutcomes : JobConvert(j, outcome))
SpecApiFair == InitRoutes /\ [][NextApi]_vars /\ FairTimers /\ FairJobs

\* The routes with the history of every request kept.
InitErrors ==
    /\ json_obj = NoDocument
    /\ InitBuild
    /\ InitApi
    /\ NoExtraction
    /\ NoGenerator
    /\ NoClient
    /\ NoFiles
    /\ NoFilename
    /\ history = [j \in Jobs |-> NoHistory(TRUE)]
SpecErrors == InitErrors /\ [][NextErrors]_vars
\* the two generate endpoints with the relayed events
SpecStream == InitRoutes /\ [][NextStream]_vars

\* /api/generate of the single-file application
SpecSingleFile == InitRoutes /\ [][NextSingleFile]_vars

\* HTTPClientManager from the start of the application to its shutdown
SpecClient == InitRoutes /\ [][NextClient]_vars

\* the two generate endpoints, with clients that disconnect
SpecDisconnect == InitRoutes /\ [][NextDisconnect]_vars

\* the file-based build of one document
SpecFiles == Init /\ [][NextFiles]_vars

\* Calls of extract_json_url, no build and no request.
InitExtracts ==
    /\ json_obj = NoDocument
    /\ InitBuild
    /\ InitApi
    /\ history = [j \in Jobs |-> NoHistory(FALSE)]
    /\ InitExtract
    /\ NoGenerator
    /\ NoClient
    /\ NoFiles
    /\ NoFilename
SpecExtract == InitExtracts /\ [][NextExtract]_vars

\* One /generate-with-progress request past validate_host, and its build.
InitGenerators ==
    /\ \/ json_obj = NoDocument
       \/ \E n \in 0..MaxPageList : \E shapes \in [1..n -> StreamShapes] :
            json_obj = Document(shapes, [n |-> 0, cover |-> FALSE])
    /\ InitBuild
    /\ InitApi
    /\ history = [j \in Jobs |-> NoHistory(FALSE)]
    /\ NoExtraction
    /\ InitGenerator
    /\ NoClient
    /\ NoFiles
    /\ NoFilename
SpecGenerator == InitGenerators /\ [][NextGenerator]_vars
\* the same with redirects
SpecRedirects == InitGenerators /\ [][NextRedirects]_vars

(***************************************************************************)
(* Properties of Part I                                                    *)
(***************************************************************************)
\* the place in json_obj.pages of the page that download task t fetches
PageOf(t) == image_urls[t][2].path
\* the place in json_obj.pages of the page whose body is images[k]
PageOfImage(k) == images[k][2]
\* the _idx a page declares, a missing one counted as 0
DeclaredIdx(p) == IF json_obj.pages[p].idx = None THEN 0 ELSE json_obj.pages[p].idx[1]
\* the pages whose image was downloaded
DownloadedPages == { PageOf(t) : t \in { u \in Tasks : net[u] = "ok" } }
FailedTasks == { t \in Tasks : fetch[t] = "settled" /\ net[t] # "ok" }
\* the images were handed to convert_images_to_pdf
HandedToEncoder == bpc \in {"converting", "done"} \/ error \in ConvertOutcomes

\* C1: the images handed to convert_images_to_pdf are the bodies of exactly the
\* pages that were downloaded, each once and none for a failed page, in
\* ascending _idx (missing counted as 0), pages of equal _idx in array order.
C1_EncoderOrder ==
    HandedToEncoder =>
      /\ Len(images) = Cardinality(DownloadedPages)
      /\ { PageOfImage(k) : k \in 1..Len(images) } = DownloadedPages
      /\ \A k \in 1..Len(images) : images[k] = <<"img", PageOfImage(k)>>
      /\ \A k, l \in 1..Len(images) :
           k < l =>
             \/ DeclaredIdx(PageOfImage(k)) < DeclaredIdx(PageOfImage(l))
             \/ /\ DeclaredIdx(PageOfImage(k)) = DeclaredIdx(PageOfImage(l))
                /\ PageOfImage(k) < PageOfImage(l)

\* a failed page is left out, a page without _idx is placed as 0, and the
\* images are not in array order
C1_Witness ==
    /\ bpc = "converting"
    /\ FailedTasks # {}
    /\ \E k, l \in 1..Len(images) :
         /\ k < l
         /\ PageOfImage(k) > PageOfImage(l)
         /\ json_obj.pages[PageOfImage(k)].idx = None

\* C2: download_images_parallel raises "all downloads failed" exactly when
\* every fetch failed; otherwise it returns the bodies of exactly the fetches
\* that succeeded, and every task's result is that of its own fetch alone.
C2_PartialFailure ==
    /\ (bpc = "failed" /\ error = "all_downloads_failed") =>
         \A t \in Tasks : fetch[t] = "settled" /\ net[t] # "ok"
    /\ (bpc \in {"converting", "done", "failed"} /\ Tasks # {}
          /\ \A t \in Tasks : net[t] # "ok") => error = "all_downloads_failed"
    /\ HandedToEncoder =>
         /\ { images[k] : k \in 1..Len(images) }
              = { Body(image_urls[t][2]) : t \in { u \in Tasks : net[u] = "ok" } }
         /\ Len(images) = Cardinality({ u \in Tasks : net[u] = "ok" })
    /\ \A t \in Tasks :
         fetch[t] = "settled" =>
           results[t] = << image_urls[t][1],
                           IF net[t] = "ok" THEN Some(Body(image_urls[t][2])) ELSE None >>
    /\ bpc # "downloading" => \A t \in Tasks : fetch[t] = "settled"

\* the images were returned although a fetch before a successful one failed
C2_Witness ==
    /\ bpc = "converting"
    /\ \E t, u \in Tasks : t < u /\ net[t] = "timeout" /\ net[u] = "ok"
    /\ \E t \in Tasks : net[t] = "http_error"

InFlight == { t \in Tasks : fetch[t] = "inflight" }

\* C3: at every moment at most download_concurrency image requests of the
\* job are in flight.
C3_DownloadConcurrency == Cardinality(InFlight) <= download_concurrency

\* the limit is reached while a further image waits for the semaphore
C3_Witness ==
    /\ Cardinality(InFlight) = download_concurrency
    /\ \E t \in Tasks : fetch[t] = "pending"

\* steps 1 and 2 passed: the image URLs are extracted
Extracted(doc) == doc.is_list /\ PageCount(doc) <= max_pages
ForbiddenCovers(doc) ==
    { p \in 1..Len(doc.pages) :
        /\ doc.pages[p].cover # None
        /\ \/ doc.pages[p].cover[1].host = ""
           \/ doc.pages[p].cover[1].host \notin allowed_image_hosts }

\* C5: when an extracted image URL has no host or a host outside the image
\* allow-list, the build fails with the forbidden-host error and no image
\* request is issued at any time.
C5_ForbiddenHostNoFetch ==
    (Extracted(json_obj) /\ ForbiddenCovers(json_obj) # {}) =>
      /\ requests = EmptyBag
      /\ bpc # "init" => (bpc = "failed" /\ error = "forbidden_host")

\* the build failed on a URL that comes after an allow-listed one in image_urls
C5_Witness ==
    /\ bpc = "failed"
    /\ error = "forbidden_host"
    /\ LET urls == ExtractImageUrls(json_obj.pages)
       IN  /\ Len(urls) >= 2
           /\ urls[1][2].host \in allowed_image_hosts
           /\ urls[Len(urls)][2].host = ""

\* the pages with a coverImg, the padding's counted
CoverCount(doc) ==
    Cardinality({ p \in 1..Len(doc.pages) : doc.pages[p].cover # None })
      + (IF doc.pad.cover THEN doc.pad.n ELSE 0)

\* C6: when the page count exceeds max_pages or the image count exceeds
\* max_images, the build fails with a limit error and no image request is
\* issued at any time.
C6_LimitsBeforeFetch ==
    (json_obj.is_list /\ (PageCount(json_obj) > max_pages
                            \/ CoverCount(json_obj) > max_images)) =>
      /\ requests = EmptyBag
      /\ bpc # "init" =>
           (bpc = "failed" /\ error \in {"too_many_pages", "too_many_images"})

\* a document of max_pages + 1 pages, some with an allow-listed coverImg
C6_Witness ==
    /\ bpc = "failed"
    /\ error = "too_many_pages"
    /\ PageCount(json_obj) = max_pages + 1
    /\ \E p \in 1..Len(json_obj.pages) :
         json_obj.pages[p].cover # None
           /\ json_obj.pages[p].cover[1].host \in allowed_image_hosts

\* the places in progress of the "downloading" callbacks
Downloading == { k \in 1..Len(progress) : progress[k][1] = "downloading" }

\* C9: the "downloading" callbacks carry non-decreasing completed values, none
\* above total.
C9_ProgressMonotone ==
    /\ \A k, l \in Downloading : k < l => progress[k][2] <= progress[l][2]
    /\ \A k \in Downloading : progress[k][2] <= progress[k][3]

\* every image was reported, two of them with the same _idx and one failed
C9_Witness ==
    /\ Cardinality(Downloading) = Len(image_urls)
    /\ Len(image_urls) >= 3
    /\ \E t, u \in Tasks : t # u /\ image_urls[t][1] = image_urls[u][1]
    /\ FailedTasks # {}

(***************************************************************************)
(* Properties of Part II                                                   *)
(***************************************************************************)
\* C4: over both generate endpoints at most max_tasks requests are past the
\* semaphore and not yet ended, the semaphore counts exactly the free
\* permits, and while none is free no queued request is admitted.
C4_AdmissionBound ==
    /\ Cardinality(Holders) <= max_tasks
    /\ _semaphore = max_tasks - Cardinality(Holders)
    /\ Cardinality(Holders) = max_tasks =>
         ~ENABLED (\E j \in Jobs, ref \in References : JobAdmit(j, ref))

\* every permit is taken, by requests of both endpoints, and a request waits
C4_Witness ==
    /\ Cardinality(Holders) = max_tasks
    /\ \E j \in Jobs : jpc[j] = "queued"
    /\ \E j, k \in Holders : job_kind[j] = "sync" /\ job_kind[k] = "stream"

C8_StreamDeadline ==
    \A j \in Jobs :
      (job_kind[j] = "stream" /\ jpc[j] \in WorkStates) =>
        elapsed[j] < total_timeout + TickSeconds

\* C10: an artifact is in the cache only within cleanup_delay seconds of its
\* caching; a download that succeeds is within that window and returns the
\* PDF of the request that was given the task_id; a download after the
\* window is answered 404.
C10_Retention ==
    /\ \A t \in DOMAIN _pdf_cache :
         /\ cleanup[t] = "sleeping"
         /\ age[t] <= cleanup_delay
         /\ _pdf_cache[t] = JobPdf(t)
    /\ download.status = 200 =>
         /\ ~download.late
         /\ download.task_id \in Jobs
         /\ job_kind[download.task_id] = "stream"
         /\ jpc[download.task_id] = "succeeded"
         /\ download.body = Some(JobPdf(download.task_id))
    /\ download.late => download.status = 404

\* the artifact of a request that succeeded was asked for after its window
C10_Witness ==
    /\ download.late
    /\ download.status = 404
    /\ download.task_id \in Jobs
    /\ jpc[download.task_id] = "succeeded"

\* how often stage x was sent to the stream of request j
Sent(j, x) == Cardinality({ k \in 1..Len(events[j]) : events[j][k] = x })
StreamJobs == { j \in Jobs : job_kind[j] = "stream" }

\* C12: once a stream has sent "complete" with its task_id, the PDF of that
\* request is in the cache under the task_id and its cleanup is scheduled,
\* until the cleanup runs; a download of an announced task_id before its
\* retention ran out is answered with that PDF.
C12_CompleteMeansCached ==
    /\ \A j \in StreamJobs :
         Sent(j, "complete") > 0 =>
           /\ cleanup[j] \in {"sleeping", "done"}
           /\ cleanup[j] = "sleeping" =>
                j \in DOMAIN _pdf_cache /\ _pdf_cache[j] = JobPdf(j)
    /\ (download.announced /\ ~download.late) =>
         /\ download.status = 200
         /\ download.body = Some(JobPdf(download.task_id))

\* an announced artifact was downloaded while its cleanup was still asleep,
\* some time after "complete"
C12_Witness ==
    /\ download.announced
    /\ download.status = 200
    /\ cleanup[download.task_id] = "sleeping"
    /\ age[download.task_id] > 0

(***************************************************************************)
(* Properties of the failures (SpecErrors)                                 *)
(***************************************************************************)
\* C11: a /generate-with-progress request that any failure ends has sent one
\* "error" event, as its last event, and no "complete"; an "error" is only
\* sent for a failure, and no stream holds both an "error" and a "complete".
C11_StreamError ==
    \A j \in StreamJobs :
      /\ jpc[j] = "failed" <=> history[j].raised # ""
      /\ jpc[j] = "failed" =>
           /\ Sent(j, "error") = 1
           /\ events[j][Len(events[j])] = "error"
           /\ Sent(j, "complete") = 0
      /\ Sent(j, "error") > 0 => jpc[j] = "failed"
      /\ ~(Sent(j, "error") > 0 /\ Sent(j, "complete") > 0)

\* one stream was ended by its reference, another by the document fetch
C11_Witness ==
    \E j, k \in StreamJobs :
      /\ history[j].raised = "no_json_url"
      /\ events[j] = <<"waiting", "started", "error">>
      /\ history[k].raised = "http_error"
      /\ events[k] = <<"waiting", "started", "fetching", "error">>

\* the failures of validation: of the reference, the hosts, the document
ValidationFailures ==
    {"unparseable", "no_json_url", "forbidden_host", "bad_json", "rejected"}
      \cup BuildRejections

\* C13: /generate answers every validation failure (malformed reference,
\* forbidden document or image host, pages not an array, limit exceeded, no
\* images, malformed JSON) with 400, the total deadline with 504, a codec or
\* other internal failure with 500, and no failure with a PDF body.
C13_StatusByClass ==
    \A j \in Jobs :
      (job_kind[j] = "sync" /\ history[j].raised # "") =>
        /\ history[j].raised \in ValidationFailures => response[j].status = 400
        /\ history[j].raised = "timeout" => response[j].status = 504
        /\ history[j].raised \in {"image_open_error", "codec_error", "http_error"} =>
             response[j].status = 500
        /\ response[j].body = None

(***************************************************************************)
(* Properties of extract_json_url (SpecExtract)                            *)
(***************************************************************************)
\* the name=value fields of the query of url, as they are written
RawFields(url) == Split(Query(url), "&")
\* the name of a field as it is written
RawName(f) == IF Find(f, "=") = 0 THEN f ELSE SubSeq(f, 1, Find(f, "=") - 1)
\* the value of a field as it is written
RawValue(f) == IF Find(f, "=") = 0 THEN <<>> ELSE Drop(f, Find(f, "=") + 1)
\* the value of the first field of url named jsonUrl, <<>> without one
FirstJsonUrl(url) ==
    LET fs == RawFields(url)
        named == {i \in 1..Len(fs) : RawName(fs[i]) = <<"jsonUrl">>}
    IN  IF named = {} THEN <<>>
        ELSE RawValue(fs[CHOOSE i \in named : \A k \in named : i <= k])

\* C14: extract_json_url returns its input unchanged when the input has no
\* "jsonUrl=" and ends in ".json" in any case; otherwise it returns the
\* percent-decoded value of the first jsonUrl query parameter, and fails
\* with the 400 error when that parameter is absent or empty.
C14_ExtractJsonUrl ==
    extraction.called =>
      IF /\ ~Contains(reference, <<"jsonUrl", "=">>)
         /\ EndsWith(Lower(reference), ".json")
      THEN extraction = Returned(reference)
      ELSE IF FirstJsonUrl(reference) = <<>>
           THEN extraction = Threw("HTTPException 400")
           ELSE extraction = Returned(unquote(FirstJsonUrl(reference)))

(***************************************************************************)
(* Properties of the cleanup (SpecCacheFair)                               *)
(***************************************************************************)
\* the cache without the entry of t
Without(cache, t) == [k \in DOMAIN cache \ {t} |-> cache[k]]

\* C15: every artifact put into the cache is removed by its own cleanup task
\* once its retention is over, downloaded or not; the cleanup of t takes t
\* out of the cache and leaves every other entry as it is; removing an entry
\* that is not there leaves the cache as it is.
C15_Eviction ==
    /\ \A t \in Jobs :
         (t \in DOMAIN _pdf_cache) ~> (t \notin DOMAIN _pdf_cache /\ cleanup[t] = "done")
    /\ [][\A t \in Jobs :
            /\ (t \in DOMAIN _pdf_cache /\ t \notin DOMAIN _pdf_cache') =>
                  /\ cleanup[t] = "sleeping" /\ cleanup'[t] = "done"
                  /\ age[t] >= cleanup_delay
            /\ (cleanup[t] = "sleeping" /\ cleanup'[t] = "done") =>
                  _pdf_cache' = Without(_pdf_cache, t)]_vars
    /\ [](\A t \in Jobs \cup {UnknownTask} :
            t \notin DOMAIN _pdf_cache => CachePop(_pdf_cache, t) = _pdf_cache)

\* the artifact of one request was removed while that of another stayed
\* cached, and no download was ever made
C15_Witness ==
    /\ \E t, u \in Jobs :
         /\ cleanup[t] = "done"
         /\ t \notin DOMAIN _pdf_cache
         /\ u \in DOMAIN _pdf_cache
    /\ download.status = 0

(***************************************************************************)
(* Properties of the validation of the document host (SpecErrors)          *)
(***************************************************************************)
\* C16: a request whose JSON URL has no host or a host outside allowed_hosts
\* fails on validate_host, in /generate with status 400 and without a PDF, in
\* /generate-with-progress with the "error" event, and sends no HTTP request,
\* neither for the document nor for an image; every request that asks for
\* images has asked for its document first, with a validated reference.
C16_HostBeforeFetch ==
    \A j \in Jobs :
      /\ history[j].reference = "forbidden_host" =>
           /\ history[j].raised = "forbidden_host"
           /\ Raised(history[j].raised) = HTTPException(400)
           /\ history[j].sent = <<>>
           /\ jpc[j] = "failed"
           /\ job_kind[j] = "sync" => response[j] = HttpError(400)
           /\ job_kind[j] = "stream" =>
                Sent(j, "error") = 1 /\ Sent(j, "fetching") = 0 /\ Sent(j, "complete") = 0
      /\ history[j].sent # <<>> =>
           /\ history[j].reference = "ok"
           /\ history[j].sent \in {<<"document">>, <<"document", "images">>}

\* both endpoints have refused a reference for its host
C16_Witness ==
    /\ \E j \in Jobs :
         job_kind[j] = "sync" /\ history[j].reference = "forbidden_host"
           /\ response[j] = HttpError(400)
    /\ \E j \in Jobs :
         job_kind[j] = "stream" /\ history[j].reference = "forbidden_host"
           /\ events[j] = <<"waiting", "started", "error">>

(***************************************************************************)
(* Properties of the permits (SpecApiFair)                                 *)
(***************************************************************************)
\* C17: a request gives its permit back exactly when it ends, whatever ends
\* it: in every step the free permits grow by the number of requests that
\* stopped being at work; with no request at work all max_tasks permits are
\* free; and, requests at work ending, every queued request gets past the
\* semaphore.
C17_PermitReturned ==
    /\ [][/\ _semaphore' - _semaphore = Cardinality(Holders) - Cardinality(Holders')
          /\ \A j \in Holders \ Holders' : jpc'[j] \in Terminal]_vars
    /\ [](Holders = {} => _semaphore = max_tasks)
    /\ \A j \in Jobs : (jpc[j] = "queued") ~> (jpc[j] \in WorkStates \cup Terminal)

\* all permits are free again after requests ended in each of the three ways
C17_Witness ==
    /\ _semaphore = max_tasks
    /\ \A j \in Jobs : jpc[j] \in Terminal
    /\ \A state \in Terminal : \E j \in Jobs : jpc[j] = state

(***************************************************************************)
(* Properties of the event stream (SpecStream)                             *)
(***************************************************************************)
\* how often stage x is in the events ev
Count(ev, x) == Cardinality({ k \in 1..Len(ev) : ev[k] = x })
\* how far a request is: waiting for its permit, at work, ended
Rank(state) ==
    CASE state = "idle" -> 0
      [] state = "queued" -> 1
      [] state \in WorkStates -> 2
      [] state \in Terminal -> 3
\* the events that end a stream
TerminalEvents == {"complete", "error"}
\* there are exactly n terminal events in ev
Ended(ev, n) == Count(ev, "complete") + Count(ev, "error") = n

\* C18: a request moves from queued to work to an end and never back, and an
\* ended request stays as it ended.  The events of a stream start with
\* "waiting"; "started" is sent once, second, in the step that takes a
\* permit from a semaphore that has one; a stream that ended has exactly one
\* terminal event, its last, "complete" after a success and "error" after a
\* failure; a stream that did not end has none; events are only added, and
\* none after the terminal one.
C18_StreamStates ==
    /\ [](\A j \in StreamJobs :
            /\ jpc[j] # "timed_out"
            /\ events[j][1] = "waiting" /\ Count(events[j], "waiting") = 1
            /\ jpc[j] = "queued" <=> events[j] = <<"waiting">>
            /\ jpc[j] # "queued" =>
                 events[j][2] = "started" /\ Count(events[j], "started") = 1
            /\ jpc[j] \in WorkStates => Ended(events[j], 0)
            /\ jpc[j] \in Terminal =>
                 /\ Ended(events[j], 1)
                 /\ events[j][Len(events[j])] =
                      (IF jpc[j] = "succeeded" THEN "complete" ELSE "error"))
    /\ [][\A j \in Jobs :
            /\ Rank(jpc'[j]) >= Rank(jpc[j])
            /\ Rank(jpc'[j]) <= Rank(jpc[j]) + 1 \/ jpc[j] = "queued"
            /\ jpc[j] \in Terminal => jpc'[j] = jpc[j] /\ events'[j] = events[j]
            /\ Len(events'[j]) >= Len(events[j])
            /\ SubSeq(events'[j], 1, Len(events[j])) = events[j]
            /\ Count(events'[j], "started") > Count(events[j], "started") =>
                 /\ jpc[j] = "queued"
                 /\ _semaphore > 0
                 /\ \/ jpc'[j] \in WorkStates /\ _semaphore' = _semaphore - 1
                    \/ jpc'[j] = "failed"]_vars

\* two streams ended, one with "complete" after relayed events and one with
\* "error" after them
C18_Witness ==
    \E j, k \in StreamJobs :
      /\ jpc[j] = "succeeded" /\ Len(events[j]) > 4
      /\ jpc[k] = "failed" /\ Len(events[k]) > 4

(***************************************************************************)
(* Properties of the downloads of one build (Spec)                         *)
(***************************************************************************)
\* the places in progress of the callbacks of a stage
StageAt(stage) == { k \in 1..Len(progress) : progress[k][1] = stage }
\* download_images_parallel has returned or raised
DownloadsReturned ==
    \/ bpc \in {"converting", "done"}
    \/ bpc = "failed" /\ error \in {"all_downloads_failed"} \cup ConvertOutcomes

\* C19: once download_images_parallel has returned or raised, every fetch it
\* launched has settled and given its permit back; the encoder is handed its
\* images, and "converting" is reported, only then, after the "downloading"
\* callback of every fetch; and every "downloading" callback comes after the
\* one "start" callback.
C19_AllSettledFirst ==
    /\ (DownloadsReturned \/ images # <<>> \/ StageAt("converting") # {}) =>
         /\ \A t \in Tasks : fetch[t] = "settled" /\ net[t] # ""
         /\ InFlight = {}
         /\ dl_semaphore = download_concurrency
         /\ Cardinality(StageAt("downloading")) = Len(image_urls)
    /\ \A c \in StageAt("converting") : \A k \in StageAt("downloading") : k < c
    /\ Cardinality(StageAt("converting")) <= 1
    /\ StageAt("downloading") # {} => Cardinality(StageAt("start")) = 1
    /\ \A k \in StageAt("downloading") : \E i \in StageAt("start") : i < k

\* "converting" was reported and the encoder has the images of a build of
\* at least three fetches, one of them failed
C19_Witness ==
    /\ bpc = "converting"
    /\ images # <<>>
    /\ Len(image_urls) >= 3
    /\ FailedTasks # {}
    /\ StageAt("converting") # {}

\* the "downloading" callbacks, in their order
RECURSIVE Reported(_)
Reported(p) ==
    IF p = <<>> THEN <<>>
    ELSE (IF Head(p)[1] = "downloading" THEN <<Head(p)>> ELSE <<>>) \o Reported(Tail(p))

\* C20: the k-th "downloading" callback carries completed = k and the total
\* N; completed is the number of fetches that settled, failed or not; and
\* when download_images_parallel has returned or raised there were exactly N
\* callbacks, with 1..N in increasing order, and completed = N.
C20_NoLostUpdate ==
    /\ \A k \in 1..Len(Reported(progress)) :
         Reported(progress)[k] = <<"downloading", k, Len(image_urls)>>
    /\ Len(Reported(progress)) = completed
    /\ completed = Cardinality({ t \in Tasks : fetch[t] = "settled" })
    /\ DownloadsReturned => completed = Len(image_urls)

\* download_images_parallel is over with all of three fetches counted,
\* failures and successes among them
C20_Witness ==
    /\ DownloadsReturned
    /\ completed = 3
    /\ Len(image_urls) = 3
    /\ \E t, u \in Tasks : net[t] = "ok" /\ net[u] \notin {"ok", ""}

(***************************************************************************)
(* Properties of the requests of one stream (SpecRedirects)                *)
(***************************************************************************)
\* the download tasks whose client.get was called
Issued == { t \in Tasks : fetch[t] # "pending" }
\* the download tasks of an image URL
TasksOf(url) == { t \in Tasks : image_urls[t][2] = url }

\* C21 as it is written: the document URL is requested at most once and the
\* image URL of every PageRef at most once for each PageRef that has it.
C21_RequestedOnce ==
    /\ Len(document_requests) <= 1
    /\ \A t \in Tasks :
         CopiesIn(image_urls[t][2], requests) <= Cardinality(TasksOf(image_urls[t][2]))

\* C21: nothing is retried: client.get is called at most once for the
\* document and once for each download task, whatever it answers; every
\* further request is the client following a redirect of such a call while
\* the call is pending.  A download that has settled, failed or not, stays
\* settled, and no request is made for the document once fetch_json is over.
C21_NoRetry ==
    /\ [](\A url \in BagToSet(requests) :
            CopiesIn(url, requests) =
              Cardinality(TasksOf(url) \cap Issued)
                + Cardinality({ k \in 1..Len(redirected) : redirected[k][2] = url }))
    /\ [](\A k \in 1..Len(redirected) : redirected[k][1] \in Issued)
    /\ [](document_requests # <<>> => document_requests[1] = JsonHost)
    /\ [][/\ \A t \in Tasks : fetch[t] = "settled" => fetch'[t] = "settled"
          /\ \A t \in Tasks : fetch[t] = "inflight" => fetch'[t] # "pending"
          /\ document_requests' # document_requests =>
               \/ gpc = "validated" /\ document_requests = <<>>
               \/ gpc = "fetching" /\ gpc' = "fetching"]_vars

\* a download was sent back to its own URL and then failed, and the
\* document was requested twice
C21_Witness ==
    /\ Len(document_requests) = 2
    /\ \E t \in Tasks :
         /\ \E k \in 1..Len(redirected) : redirected[k] = <<t, image_urls[t][2]>>
         /\ fetch[t] = "settled" /\ net[t] = "timeout"
         /\ CopiesIn(image_urls[t][2], requests) = 2

(***************************************************************************)
(* Properties of the pages without coverImg (Spec)                         *)
(***************************************************************************)
\* the pages written out in json_obj that have a coverImg
Covered == { p \in 1..Len(json_obj.pages) : json_obj.pages[p].cover # None }
\* every image request is for the coverImg of a page that has one, and the
\* build extracts exactly the coverImg of those pages
OnlyCoveredFetched ==
    /\ \A url \in BagToSet(requests) :
         \E p \in Covered : json_obj.pages[p].cover = Some(url)
    /\ bpc \notin {"init", "failed"} =>
         /\ Len(image_urls) = Cardinality(Covered)
         /\ \A p \in Covered : \E t \in Tasks : Some(image_urls[t][2]) = json_obj.pages[p].cover
    /\ (error # "" /\ Covered # {} /\ ~json_obj.pad.cover) => error # "no_images"

\* C22 as it is written: the pages without coverImg produce no fetch and no
\* error, and a list of pages of which none has a coverImg makes the build
\* fail with the no-images error before any image request.
C22_NoImagesError ==
    /\ OnlyCoveredFetched
    /\ (json_obj.is_list /\ CoverCount(json_obj) = 0) =>
         /\ requests = EmptyBag
         /\ bpc # "init" => (bpc = "failed" /\ error = "no_images")

\* C22: the pages without coverImg produce no fetch and no error; a document
\* of which no page has a coverImg makes the build fail before any image
\* request, with the no-images error when its pages are a list of at most
\* max_pages pages and with the error of that earlier check otherwise.
C22_SkippedWithoutFetch ==
    /\ OnlyCoveredFetched
    /\ CoverCount(json_obj) = 0 =>
         /\ requests = EmptyBag
         /\ bpc # "init" =>
              /\ bpc = "failed"
              /\ error = (IF ~json_obj.is_list THEN "pages_not_list"
                          ELSE IF PageCount(json_obj) > max_pages THEN "too_many_pages"
                          ELSE "no_images")

\* a build went through with a page that has no coverImg beside one that has
C22_Witness ==
    /\ bpc = "done"
    /\ Covered # {}
    /\ \E p \in 1..Len(json_obj.pages) : p \notin Covered
    /\ BagCardinality(requests) = Cardinality(Covered)
(***************************************************************************)
(* Properties of the encoding and the event loop (SpecSingleFile)          *)
(***************************************************************************)
\* C23: the PDF encoding of one job does not block the event loop: while a
\* job is encoding, a job that awaits its document or its images can take
\* its next step.
C23_EncodingOffLoop ==
    \A a \in Jobs, b \in Jobs :
      jpc[a] = "converting" =>
        /\ jpc[b] = "fetching" =>
             ENABLED (\E outcome \in FetchOutcomes : FetchText(b, outcome))
        /\ jpc[b] = "downloading" =>
             ENABLED (\E some_ok \in BOOLEAN : BuildPdfBytesGather(b, some_ok))

(***************************************************************************)
(* Properties of GET /download/{task_id} (SpecCache)                       *)
(***************************************************************************)
\* C24: a download reads the cache and changes nothing: it leaves the cache,
\* the cleanups and the requests as they are; it answers 404 for a task_id
\* that was never issued or whose artifact was evicted, and for an artifact
\* that is present 200 with the bytes the cache holds, which no step alters
\* while the artifact is there: a second download of it gives the same bytes.
C24_DownloadReadOnly ==
    /\ [][download' # download =>
            /\ _pdf_cache' = _pdf_cache
            /\ UNCHANGED <<job_kind, jpc, _semaphore, elapsed, response, events, cleanup, age>>
            /\ LET t == download'.task_id
               IN  /\ t \in DOMAIN _pdf_cache =>
                        /\ download'.status = 200
                        /\ download'.body = Some(_pdf_cache[t])
                        /\ (download.status = 200 /\ download.task_id = t) =>
                              download'.body = download.body
                   /\ t \notin DOMAIN _pdf_cache =>
                        download'.status = 404 /\ download'.body = None]_vars
    /\ [][\A t \in DOMAIN _pdf_cache \cap DOMAIN _pdf_cache' :
             _pdf_cache'[t] = _pdf_cache[t]]_vars
    /\ [](download.status # 0 =>
            LET t == download.task_id
            IN  /\ t = UnknownTask => download.status = 404
                /\ (t \in Jobs /\ cleanup[t] = "none") => download.status = 404
                \* answered 200 and not evicted since: the artifact is still there
                /\ (download.status = 200 /\ cleanup[t] = "sleeping") =>
                      /\ t \in DOMAIN _pdf_cache
                      /\ download.body = Some(_pdf_cache[t]))

\* an artifact was downloaded some time after it was stored and is still in
\* the cache, with the bytes of the answer
C24_Witness ==
    /\ download.status = 200
    /\ download.task_id \in DOMAIN _pdf_cache
    /\ download.body = Some(_pdf_cache[download.task_id])
    /\ age[download.task_id] > 0

(***************************************************************************)
(* Properties of the relay loop (SpecGenerator)                            *)
(***************************************************************************)
\* the events put on progress_queue that the loop has not yet taken
Pending == SubSeq(progress, taken + 1, Len(progress))
HeartbeatSent == stream' = Append(stream, Event("heartbeat"))
TerminalEvent(e) == e \in {Event("complete"), Event("error")}
\* the terminal event is the last of the stream, and ends the generator
TerminalLast ==
    /\ \A k \in 1..Len(stream) : TerminalEvent(stream[k]) => k = Len(stream)
    /\ gpc = "ended" <=> (stream # <<>> /\ TerminalEvent(stream[Len(stream)]))

\* C25 (as stated): a heartbeat is only sent while the build task is still
\* running and nothing is on the queue, and never after the terminal event.
C25_HeartbeatWhileRunning ==
    /\ [][HeartbeatSent => (~TaskDone /\ Pending = <<>> /\ gpc # "ended")]_vars
    /\ []TerminalLast

\* C25 (amended): the loop starts a wait only with the build task running;
\* a heartbeat is only sent from such a wait, with nothing on the queue, and
\* never after the task has returned its PDF (the task may have failed
\* during the wait); the terminal event is the last of the stream.
C25_HeartbeatWhenIdle ==
    /\ [][(gpc # "getting" /\ gpc' = "getting") => ~TaskDone']_vars
    /\ [][HeartbeatSent =>
            (gpc = "getting" /\ Pending = <<>> /\ bpc # "done")]_vars
    /\ [](gpc = "ended" => ~ENABLED RelayTimeout)
    /\ []TerminalLast

\* a stream that held a heartbeat has ended with "complete"
C25_Witness ==
    /\ Heartbeats > 0
    /\ gpc = "ended"
    /\ stream[Len(stream)] = Event("complete")

(***************************************************************************)
(* Properties of HTTPClientManager (SpecClient)                            *)
(***************************************************************************)
OpenClients == { c \in DOMAIN clients : clients[c] = "open" }

\* C26: the pooled client is a singleton: at most one client is open at any
\* moment; while the application serves, every caller of get_client holds
\* the one client the manager holds; and once close has completed, every
\* client ever created is closed, whatever get_client calls ran meanwhile.
C26_Singleton ==
    /\ Cardinality(OpenClients) <= 1
    /\ lifespan = "serving" =>
         \A j \in Callers : held[j] # None => held[j] = _client
    /\ lifespan = "stopped" => \A c \in DOMAIN clients : clients[c] = "closed"

\* the progress events the loop has sent, in order: the stream after its
\* first three events, without the heartbeats and the terminal event
Relayed ==
    SelectSeq(SubSeq(stream, 4, Len(stream)),
              LAMBDA e : e # Event("heartbeat") /\ ~TerminalEvent(e))
Completed == gpc = "ended" /\ stream[Len(stream)] = Event("complete")

\* C27: the loop sends the progress events in the order they were put on the
\* queue, and a stream that ends with "complete" has sent every one of them
\* before it, "done" among them.
C27_AllRelayedBeforeComplete ==
    /\ Relayed = [k \in 1..taken |-> RelayMsg(progress[k])]
    /\ Completed =>
         /\ taken = Len(progress)
         /\ \E k \in 1..Len(stream) : stream[k] = Event("done")

(***************************************************************************)
(* Properties of the permits and the build tasks (SpecDisconnect)          *)
(***************************************************************************)
\* the requests whose build_pdf_from_json is downloading or encoding
Pipelines == { j \in Jobs : jpc[j] \in {"downloading", "converting"} \cup OrphanStates }

\* C28: a build never runs without the permit of its request (a request
\* that has given its permit back has no build running), so at most
\* max_tasks builds are downloading or encoding.
C28_PermitCoversBuild ==
    /\ \A j \in Pipelines : j \in Holders
    /\ Cardinality(Pipelines) <= max_tasks
    /\ _semaphore = max_tasks - Cardinality(Holders)

(***************************************************************************)
(* Properties of the hosts requested (SpecRedirects)                       *)
(***************************************************************************)
\* C29: every HTTP request of a job goes to an allow-listed host, the
\* requests the client makes when it follows a redirect included: the
\* document is only requested from allowed_hosts and images only from
\* allowed_image_hosts.
C29_OnlyAllowedHosts ==
    /\ \A k \in 1..Len(document_requests) : document_requests[k] \in allowed_hosts
    /\ \A url \in BagToSet(requests) : HostAllowed(url, allowed_image_hosts)

(***************************************************************************)
(* Properties of what enters the cache (SpecDisconnect)                    *)
(***************************************************************************)
\* the step stores the PDF of stream j and sends its "complete"
Stores(j) ==
    /\ job_kind[j] = "stream"
    /\ jpc[j] = "converting" /\ jpc'[j] = "succeeded"
    /\ events'[j] = Append(events[j], "complete")
    /\ _pdf_cache' = CachePut(_pdf_cache, j, JobPdf(j))
\* the step is the cleanup of the artifact of t
Evicts(t) == cleanup[t] = "sleeping" /\ cleanup'[t] = "done"

\* C30: the cache only holds PDFs of streams that succeeded and sent
\* "complete"; the cache changes only when such a stream stores its PDF or a
\* cleanup runs: a request that fails, a stream whose client goes away and
\* every step of a /generate request leave it as it is.
C30_OnlySucceededStreams ==
    /\ [](\A t \in DOMAIN _pdf_cache :
            /\ t \in StreamJobs
            /\ jpc[t] = "succeeded"
            /\ Sent(t, "complete") = 1
            /\ _pdf_cache[t] = JobPdf(t))
    /\ [][_pdf_cache' # _pdf_cache =>
            \E j \in Jobs : Stores(j) \/ Evicts(j)]_vars
    /\ [][\A j \in Jobs :
            (jpc'[j] # jpc[j] /\ (job_kind'[j] = "sync" \/ jpc'[j] # "succeeded")) =>
               _pdf_cache' = _pdf_cache]_vars

\* the PDF of a stream is in the cache while a /generate request has been
\* answered with its PDF and the client of another stream has gone away
C30_Witness ==
    \E a, b, c \in Jobs :
      /\ a \in DOMAIN _pdf_cache
      /\ job_kind[b] = "sync" /\ response[b].status = 200
      /\ job_kind[c] = "stream" /\ jpc[c] = "disconnected"
      /\ DOMAIN _pdf_cache = {a}

(***************************************************************************)
(* Properties of the file-based build (SpecFiles)                          *)
(***************************************************************************)
\* the bodies of the pages that were downloaded, in the order of image_urls
\* (the pages sorted by _idx, ties in the order of the document)
RECURSIVE OwnBodies(_)
OwnBodies(ts) ==
    IF ts = <<>> THEN <<>>
    ELSE IF net[Head(ts)] = "ok"
         THEN <<Body(image_urls[Head(ts)][2])>> \o OwnBodies(Tail(ts))
         ELSE OwnBodies(Tail(ts))

\* C31: in the file-based build every downloaded page gives one page of the
\* PDF, with its own image, in sorted order, also when pages share an _idx.
C31_OwnImagePerPage ==
    bpc = "done" => pdf_bytes = Pdf(OwnBodies([t \in Tasks |-> t]))

(***************************************************************************)
(* Properties of safe_filename (SpecFilename)                              *)
(***************************************************************************)
\* C32: whatever the name, safe_filename returns a name that is not empty,
\* has at most 120 characters, ends in ".pdf" in upper or lower case, and
\* holds only characters of the class: no separator and no double quote.
C32_SafeFilename ==
    output_name # None =>
      LET out == output_name[1]
      IN  /\ out # <<>>
          /\ Len(out) <= NameLimit
          /\ EndsWithPdf(out)
          /\ \A i \in 1..Len(out) : out[i] \in Kept \cup {"o", "u", "t"}
          /\ \A i \in 1..Len(out) : out[i] \notin {"/", "\\", "\""}

====
